---- MODULE Spec2Model ----
(***************************************************************************)
(* x402 facilitator: payment verification and settlement on two ledger     *)
(* families (Base/EVM transferWithAuthorization, Solana pre-signed          *)
(* transactions), the HTTP orchestrator that routes to them, and the        *)
(* in-memory Bazaar discovery registry.                                     *)
(*                                                                         *)
(* Strings of the program stay TLA+ strings; where the code looks inside a  *)
(* string (includes, startsWith, toLowerCase, parseInt, BigInt) the string  *)
(* is spelled out as its sequence of characters by Chars.                   *)
(***************************************************************************)
EXTENDS Integers, Sequences, FiniteSets, TLC

VARIABLES now, balance, nonceUsed, tokenAccount, privateKey, keypair,
          resourceRegistry, last, inflight

vars == <<now, balance, nonceUsed, tokenAccount, privateKey, keypair,
          resourceRegistry, last, inflight>>

\* ------------------------------------------------------------------ bounds
\* Largest clock value (seconds) the model lets Date.now() reach.
MaxNow == 3
\* Largest token balance an account of either ledger holds.
MaxBal == 1
\* Largest number of requests the server works on at the same time.
MaxInflight == 2

\* ------------------------------------------------------------------ strings
Chars(s) ==
  CASE s = "base" -> <<"b", "a", "s", "e">>
    [] s = "base-sepolia" -> <<"b", "a", "s", "e", "-", "s", "e", "p", "o", "l", "i", "a">>
    [] s = "eip155:8453" -> <<"e", "i", "p", "1", "5", "5", ":", "8", "4", "5", "3">>
    [] s = "eip155:84532" -> <<"e", "i", "p", "1", "5", "5", ":", "8", "4", "5", "3", "2">>
    [] s = "solana" -> <<"s", "o", "l", "a", "n", "a">>
    [] s = "solana-devnet" -> <<"s", "o", "l", "a", "n", "a", "-", "d", "e", "v", "n", "e", "t">>
    [] s = "solana:5eykt4UsFv8P8NJdTREpY1vzqKqZKvdp" -> <<"s", "o", "l", "a", "n", "a", ":", "5", "e", "y", "k", "t", "4", "U", "s", "F", "v", "8", "P", "8", "N", "J", "d", "T", "R", "E", "p", "Y", "1", "v", "z", "q", "K", "q", "Z", "K", "v", "d", "p">>
    [] s = "solana:EtWTRABZaYq6iMfeYKouRu166VU2xqa1" -> <<"s", "o", "l", "a", "n", "a", ":", "E", "t", "W", "T", "R", "A", "B", "Z", "a", "Y", "q", "6", "i", "M", "f", "e", "Y", "K", "o", "u", "R", "u", "1", "6", "6", "V", "U", "2", "x", "q", "a", "1">>
    [] s = "bitcoin" -> <<"b", "i", "t", "c", "o", "i", "n">>
    [] s = "eip155:1" -> <<"e", "i", "p", "1", "5", "5", ":", "1">>
    [] s = "solana-testnet" -> <<"s", "o", "l", "a", "n", "a", "-", "t", "e", "s", "t", "n", "e", "t">>
    [] s = "solana-base" -> <<"s", "o", "l", "a", "n", "a", "-", "b", "a", "s", "e">>
    [] s = "0xaa" -> <<"0", "x", "a", "a">>
    [] s = "0xBB" -> <<"0", "x", "B", "B">>
    [] s = "0xbb" -> <<"0", "x", "b", "b">>
    [] s = "0xcc" -> <<"0", "x", "c", "c">>
    [] s = "0" -> <<"0">>
    [] s = "1" -> <<"1">>
    [] s = "2" -> <<"2">>
    [] s = "3" -> <<"3">>
    [] s = "01" -> <<"0", "1">>
    [] s = "x" -> <<"x">>
    [] s = "eip155:" -> <<"e", "i", "p", "1", "5", "5", ":">>
    [] s = "devnet" -> <<"d", "e", "v", "n", "e", "t">>
    [] s = "usdc" -> <<"u", "s", "d", "c">>
    [] s = "SoPayee" -> <<"S", "o", "P", "a", "y", "e", "e">>
    [] s = "-1" -> <<"-", "1">>
    [] s = "eip155" -> <<"e", "i", "p", "1", "5", "5">>
    [] s = "8453:usdc" -> <<"8", "4", "5", "3", ":", "u", "s", "d", "c">>
    [] s = "undefined" -> <<"u", "n", "d", "e", "f", "i", "n", "e", "d">>
    [] s = "" -> <<>>

\* String.prototype.includes / startsWith on character sequences.
Includes(cs, sub) ==
  \E i \in 1..(Len(cs) - Len(sub) + 1) : SubSeq(cs, i, i + Len(sub) - 1) = sub

StartsWith(cs, pre) ==
  Len(pre) <= Len(cs) /\ SubSeq(cs, 1, Len(pre)) = pre

\* String.prototype.toLowerCase, character by character.
LowerChar(c) ==
  CASE c = "A" -> "a" [] c = "B" -> "b" [] c = "C" -> "c" [] c = "D" -> "d"
    [] c = "E" -> "e" [] c = "F" -> "f" [] c = "X" -> "x" [] c = "S" -> "s"
    [] c = "P" -> "p" [] OTHER -> c

toLowerCase(s) == [i \in 1..Len(Chars(s)) |-> LowerChar(Chars(s)[i])]

IsDigit(c) == c \in {"0", "1", "2", "3", "4", "5", "6", "7", "8", "9"}

DigitVal(c) ==
  CASE c = "0" -> 0 [] c = "1" -> 1 [] c = "2" -> 2 [] c = "3" -> 3 [] c = "4" -> 4
    [] c = "5" -> 5 [] c = "6" -> 6 [] c = "7" -> 7 [] c = "8" -> 8 [] c = "9" -> 9

RECURSIVE DecVal(_)
DecVal(cs) ==
  IF cs = <<>> THEN 0
  ELSE 10 * DecVal(SubSeq(cs, 1, Len(cs) - 1)) + DigitVal(cs[Len(cs)])

\* Length of the longest prefix of cs made of decimal digits.
RECURSIVE DigitPrefix(_)
DigitPrefix(cs) ==
  IF cs = <<>> \/ ~IsDigit(Head(cs)) THEN 0 ELSE 1 + DigitPrefix(Tail(cs))

\* The value JavaScript's NaN is given here; every comparison with it is false.
NaN == -1

\* parseInt(s): the leading decimal digits, NaN when there are none.
parseInt(s) ==
  LET n == DigitPrefix(Chars(s))
  IN IF n = 0 THEN NaN ELSE DecVal(SubSeq(Chars(s), 1, n))

JsLess_OrEqual(a, b) == a # NaN /\ b # NaN /\ a <= b
JsLess(a, b) == a # NaN /\ b # NaN /\ a < b

\* BigInt(s) throws a SyntaxError unless s is all digits ("" is 0n).
BigIntThrows(s) == \E i \in 1..Len(Chars(s)) : ~IsDigit(Chars(s)[i])

BigInt(s) == DecVal(Chars(s))

\* ------------------------------------------------------------------ values
\* The value of an optional field that is not set.
Absent == "undefined"

\* What getChainId gives when it throws.
Unsupported == 0

\* BASE_PRIVATE_KEY as configured: unset, not a private key, a private key.
NoKey == ""
BadKey == "not-a-key"
GoodKey == "0xkey"

\* The facilitator's Solana keypair (null when not configured).
NullKeypair == "null"
FacilitatorKeypair == "facilitator"

\* The token account of a payer that does not exist on the ledger.
NoAccount == -1

\* A signature is what verifyTypedData makes of it: it recovers to `from` over
\* this message and domain, recovers to another address, or is not a
\* recoverable signature at all (the call throws).
Signatures == {"sig_by_from", "sig_by_other", "sig_malformed"}

verifyTypedData(signature) ==
  CASE signature = "sig_by_from" -> "true"
    [] signature = "sig_by_other" -> "false"
    [] OTHER -> "throws"

\* ------------------------------------------------------------------ Base
\* Parse network string to chain ID.
getChainId(network) ==
  IF network = "base" \/ network = "eip155:8453" THEN 8453
  ELSE IF network = "base-sepolia" \/ network = "eip155:84532" THEN 84532
  ELSE Unsupported

VerifyFail(reason, payer) ==
  [isValid |-> FALSE, invalidReason |-> reason, payer |-> payer]

VerifyOk(payer) ==
  [isValid |-> TRUE, invalidReason |-> Absent, payer |-> payer]

\* The outcome of the body of a try block: a response, or a thrown fault,
\* with the ledger reads made on the way.
Returned(resp, reads) == [threw |-> FALSE, resp |-> resp, reads |-> reads]
Thrown(reads) == [threw |-> TRUE, resp |-> VerifyFail(Absent, Absent), reads |-> reads]

\* balance < BigInt(value)
BalanceTooLow_AtMost(bal, value) == bal <= BigInt(value)
BalanceTooLow(bal, value) == bal < BigInt(value)

BaseVerifyTry_AmountFirst(pp, req, t, bal, used, env) ==
  LET a == pp.payload.authorization
      chainId == getChainId(pp.network)
  IN IF chainId = Unsupported THEN Thrown(<<>>)
     ELSE IF "authorization" \notin DOMAIN pp.payload THEN Thrown(<<>>)
     ELSE IF a.value # req.maxAmountRequired
       THEN Returned(VerifyFail("amount_mismatch", a.from), <<>>)
     ELSE IF JsLess(t, parseInt(a.validAfter))
       THEN Returned(VerifyFail("payment_expired", a.from), <<>>)
     ELSE IF JsLess(parseInt(a.validBefore), t)
       THEN Returned(VerifyFail("payment_expired", a.from), <<>>)
     ELSE IF toLowerCase(a.to) # toLowerCase(req.payTo)
       THEN Returned(VerifyFail("recipient_mismatch", a.from), <<>>)
     ELSE IF \/ BigIntThrows(a.value)
             \/ BigIntThrows(a.validAfter)
             \/ BigIntThrows(a.validBefore)
             \/ verifyTypedData(pp.payload.signature) = "throws"
       THEN Thrown(<<>>)
     ELSE IF verifyTypedData(pp.payload.signature) = "false"
       THEN Returned(VerifyFail("invalid_signature", a.from), <<>>)
     ELSE IF env = "balanceOf" THEN Thrown(<<"balanceOf">>)
     ELSE IF BalanceTooLow(bal[a.from], a.value)
       THEN Returned(VerifyFail("insufficient_funds", a.from), <<"balanceOf">>)
     ELSE IF env = "authorizationState"
       THEN Thrown(<<"balanceOf", "authorizationState">>)
     ELSE IF <<a.from, a.nonce>> \in used
       THEN Returned(VerifyFail("invalid_payload", a.from),
                     <<"balanceOf", "authorizationState">>)
     ELSE Returned(VerifyOk(a.from), <<"balanceOf", "authorizationState">>)

BaseVerifyTry_EagerRead(pp, req, t, bal, used, env) ==
  [BaseVerifyTry_AmountFirst(pp, req, t, bal, used, env)
     EXCEPT !.reads = IF @ = <<>> THEN <<"balanceOf">> ELSE @]

\* The try block of BaseFacilitator.verify (destructuring a payload that has
\* no authorization throws). t is Math.floor(Date.now()/1000),
\* bal and used are the token contract's balanceOf and authorizationState,
\* env names the RPC call that fails during this call ("none" when all work).
BaseVerifyTry(pp, req, t, bal, used, env) ==
  LET a == pp.payload.authorization
      chainId == getChainId(pp.network)
  IN IF chainId = Unsupported THEN Thrown(<<>>)
     ELSE IF "authorization" \notin DOMAIN pp.payload THEN Thrown(<<>>)
     ELSE IF JsLess(t, parseInt(a.validAfter))
       THEN Returned(VerifyFail("payment_expired", a.from), <<>>)
     ELSE IF JsLess(parseInt(a.validBefore), t)
       THEN Returned(VerifyFail("payment_expired", a.from), <<>>)
     ELSE IF a.value # req.maxAmountRequired
       THEN Returned(VerifyFail("amount_mismatch", a.from), <<>>)
     ELSE IF toLowerCase(a.to) # toLowerCase(req.payTo)
       THEN Returned(VerifyFail("recipient_mismatch", a.from), <<>>)
     ELSE IF \/ BigIntThrows(a.value)
             \/ BigIntThrows(a.validAfter)
             \/ BigIntThrows(a.validBefore)
             \/ verifyTypedData(pp.payload.signature) = "throws"
       THEN Thrown(<<>>)
     ELSE IF verifyTypedData(pp.payload.signature) = "false"
       THEN Returned(VerifyFail("invalid_signature", a.from), <<>>)
     ELSE IF env = "balanceOf" THEN Thrown(<<"balanceOf">>)
     ELSE IF BalanceTooLow(bal[a.from], a.value)
       THEN Returned(VerifyFail("insufficient_funds", a.from), <<"balanceOf">>)
     ELSE IF env = "authorizationState"
       THEN Thrown(<<"balanceOf", "authorizationState">>)
     ELSE IF <<a.from, a.nonce>> \in used
       THEN Returned(VerifyFail("invalid_payload", a.from),
                     <<"balanceOf", "authorizationState">>)
     ELSE Returned(VerifyOk(a.from), <<"balanceOf", "authorizationState">>)

BaseVerify_NoCatch(pp, req, t, bal, used, env) ==
  BaseVerifyTry(pp, req, t, bal, used, env)

\* BaseFacilitator.verify: the try block and its catch.
BaseVerify(pp, req, t, bal, used, env) ==
  LET r == BaseVerifyTry(pp, req, t, bal, used, env)
  IN IF r.threw
       THEN Returned(VerifyFail("unexpected_error", Absent), r.reads)
       ELSE r

SettleFail(reason, tx, payer, network) ==
  [success |-> FALSE, errorReason |-> reason, transaction |-> tx,
   network |-> network, payer |-> payer]

SettleOk(tx, payer, network) ==
  [success |-> TRUE, errorReason |-> Absent, transaction |-> tx,
   network |-> network, payer |-> payer]

\* What a settle call leaves behind: its response, the ledger reads and the
\* transaction submissions it made, and the ledger after it.
Settled(resp, reads, writes, bal, used) ==
  [threw |-> FALSE, resp |-> resp, reads |-> reads, writes |-> writes,
   balance |-> bal, nonceUsed |-> used]

\* privateKeyToAccount throws on a string that is no private key.
privateKeyToAccountThrows(key) == key = BadKey

\* The transaction id writeContract returns for a submitted transfer.
TxHash(a) == <<"0xtx", a.from, a.nonce>>

TransferCall_ToFacilitator(pp, key) ==
  LET a == pp.payload.authorization
  IN [functionName |-> "transferWithAuthorization", account |-> key,
      from |-> a.from, to |-> key, value |-> BigInt(a.value),
      validAfter |-> BigInt(a.validAfter), validBefore |-> BigInt(a.validBefore),
      nonce |-> a.nonce, signature |-> pp.payload.signature]

\* The transferWithAuthorization call settle submits: the authorization as
\* received, its signature, sent from the facilitator's account.
TransferCall(pp, key) ==
  LET a == pp.payload.authorization
  IN [functionName |-> "transferWithAuthorization", account |-> key,
      from |-> a.from, to |-> a.to, value |-> BigInt(a.value),
      validAfter |-> BigInt(a.validAfter), validBefore |-> BigInt(a.validBefore),
      nonce |-> a.nonce, signature |-> pp.payload.signature]

\* The token contract executing an included transferWithAuthorization.
LedgerTransfer(bal, a) == [bal EXCEPT ![a.from] = @ - BigInt(a.value)]
LedgerConsume(used, a) == used \cup {<<a.from, a.nonce>>}

\* settle giving up because its verification failed: the verification's own
\* reason and payer.
BaseAbort_SettlementFailed(verification, network) ==
  SettleFail("settlement_failed", Absent, verification.resp.payer, network)
BaseAbort(verification, network) ==
  SettleFail(verification.resp.invalidReason, Absent, verification.resp.payer, network)

\* The catch of BaseFacilitator.settle.
BaseSettleCatch_Unexpected(network) ==
  SettleFail("unexpected_error", Absent, Absent, network)
BaseSettleCatch(network) ==
  SettleFail("settlement_failed", Absent, Absent, network)

BaseSubmit_StatusIgnored(pp, bal, used, env, key, rd) ==
  LET a == pp.payload.authorization
      Caught(writes, b, u) == Settled(BaseSettleCatch(pp.network), rd, writes, b, u)
  IN IF privateKeyToAccountThrows(key) THEN Caught(<<>>, bal, used)
     ELSE IF env = "writeContract" THEN Caught(<<TransferCall(pp, key)>>, bal, used)
     ELSE IF env = "waitForTransactionReceipt"
       THEN Caught(<<TransferCall(pp, key)>>, LedgerTransfer(bal, a), LedgerConsume(used, a))
     ELSE IF env = "reverted"
       THEN Settled(SettleOk(TxHash(a), a.from, pp.network),
                    rd, <<TransferCall(pp, key)>>, bal, used)
     ELSE Settled(SettleOk(TxHash(a), a.from, pp.network),
                  rd, <<TransferCall(pp, key)>>,
                  LedgerTransfer(bal, a), LedgerConsume(used, a))

\* BaseFacilitator.settle once its verification has passed (rd: the reads the
\* verification made): derive the account, submit the transfer, wait for the
\* receipt. A fault in any of them lands in the catch.
BaseSubmit(pp, bal, used, env, key, rd) ==
  LET a == pp.payload.authorization
      Caught(writes, b, u) == Settled(BaseSettleCatch(pp.network), rd, writes, b, u)
  IN IF privateKeyToAccountThrows(key) THEN Caught(<<>>, bal, used)
     ELSE IF env = "writeContract" THEN Caught(<<TransferCall(pp, key)>>, bal, used)
     ELSE IF env = "waitForTransactionReceipt"
       THEN Caught(<<TransferCall(pp, key)>>, LedgerTransfer(bal, a), LedgerConsume(used, a))
     ELSE IF env = "reverted"
       THEN Settled(SettleFail("settlement_failed", TxHash(a), a.from, pp.network),
                    rd, <<TransferCall(pp, key)>>, bal, used)
     ELSE Settled(SettleOk(TxHash(a), a.from, pp.network),
                  rd, <<TransferCall(pp, key)>>,
                  LedgerTransfer(bal, a), LedgerConsume(used, a))

BaseSettleTry_NoAbort(pp, req, t, bal, used, env, key) ==
  BaseSubmit(pp, bal, used, env, key, BaseVerify(pp, req, t, bal, used, env).reads)

\* The try block of BaseFacilitator.settle: verify first, then submit.
BaseSettleTry(pp, req, t, bal, used, env, key) ==
  LET verification == BaseVerify(pp, req, t, bal, used, env)
  IN IF ~verification.resp.isValid
       THEN Settled(BaseAbort(verification, pp.network), verification.reads, <<>>, bal, used)
       ELSE BaseSubmit(pp, bal, used, env, key, verification.reads)

BaseSettle_KeyTestLate(pp, req, t, bal, used, env, key) ==
  IF key = NoKey
    THEN Settled(SettleFail("settlement_failed", Absent, Absent, pp.network),
                 BaseVerify(pp, req, t, bal, used, env).reads, <<>>, bal, used)
    ELSE BaseSettleTry(pp, req, t, bal, used, env, key)

\* BaseFacilitator.settle: without a private key it fails at once.
BaseSettle(pp, req, t, bal, used, env, key) ==
  IF key = NoKey
    THEN Settled(SettleFail("settlement_failed", Absent, Absent, pp.network),
                 <<>>, <<>>, bal, used)
    ELSE BaseSettleTry(pp, req, t, bal, used, env, key)

\* ------------------------------------------------------------------ Solana
\* What a deserializer gives when it throws.
DecodeFails == "throws"

\* VersionedTransaction.deserialize(txBuffer).message.staticAccountKeys[0]:
\* the first signer of a blob in the versioned format. Which blobs each of
\* the two deserializers accepts is the library's business: a blob may be
\* accepted by one of them, by neither, or by both ("tx_both").
DecodeVersioned(tx) ==
  CASE tx = "tx_versioned" -> "SoPayer"
    [] tx = "tx_versioned_big" -> "SoPayer"
    [] tx = "tx_both" -> "SoPayer"
    [] OTHER -> DecodeFails

\* Transaction.from(txBuffer).feePayer?.toBase58() || '': the fee payer of a
\* blob in the legacy format ('' when it names none).
DecodeLegacy(tx) ==
  CASE tx = "tx_legacy" -> "SoPayer"
    [] tx = "tx_legacy_nofeepayer" -> ""
    [] tx = "tx_both" -> "SoPayer"
    [] OTHER -> DecodeFails

\* The token amount the transaction's own transfer instruction moves, and
\* the account it moves it to.
TxAmount(tx) == IF tx = "tx_versioned_big" THEN 2 ELSE 1
TxRecipient(tx) == "SoPayee"

USDC_MINTS_AnyNetwork(network) == "EPjFWdd5AufqSSqeM2qN1xzybapC8G4wEGGkZwyTDt1v"

\* USDC mint addresses by network (Absent for a key USDC_MINTS does not have).
USDC_MINTS(network) ==
  IF network \in {"solana", "solana:5eykt4UsFv8P8NJdTREpY1vzqKqZKvdp"}
    THEN "EPjFWdd5AufqSSqeM2qN1xzybapC8G4wEGGkZwyTDt1v"
  ELSE IF network \in {"solana-devnet", "solana:EtWTRABZaYq6iMfeYKouRu166VU2xqa1"}
    THEN "4zMMC9srt5Ri5X14GAgXhaHii3GnPAEERYPJgZJDncDU"
  ELSE Absent

\* The inner try of SolanaFacilitator.verify: read the payer's token account
\* and compare its amount; every fault in it counts as a missing account.
SolanaBalanceCheck_Strict(payer, req, acct, env) ==
  IF \/ env = "getAccount"
     \/ acct[payer] = NoAccount
     \/ BigIntThrows(req.maxAmountRequired)
    THEN VerifyFail("insufficient_funds", payer)
  ELSE IF acct[payer] <= BigInt(req.maxAmountRequired)
    THEN VerifyFail("insufficient_funds", payer)
  ELSE VerifyOk(payer)

SolanaBalanceCheck(payer, req, acct, env) ==
  IF \/ env = "getAccount"
     \/ acct[payer] = NoAccount
     \/ BigIntThrows(req.maxAmountRequired)
    THEN VerifyFail("insufficient_funds", payer)
  ELSE IF acct[payer] < BigInt(req.maxAmountRequired)
    THEN VerifyFail("insufficient_funds", payer)
  ELSE VerifyOk(payer)

\* The outer try block of SolanaFacilitator.verify (Buffer.from of a payload
\* that has no transaction throws).
SolanaVerifyTry(pp, req, acct, env) ==
  LET tx == pp.payload.transaction
      payer == IF DecodeVersioned(tx) # DecodeFails
                 THEN DecodeVersioned(tx)
                 ELSE DecodeLegacy(tx)
  IN IF "transaction" \notin DOMAIN pp.payload THEN Thrown(<<>>)
     ELSE IF payer = DecodeFails THEN Thrown(<<>>)
     ELSE IF payer = "" THEN Returned(VerifyFail("invalid_payload", Absent), <<>>)
     ELSE IF USDC_MINTS(pp.network) = Absent
       THEN Returned(VerifyFail("unsupported_network", payer), <<>>)
     ELSE Returned(SolanaBalanceCheck(payer, req, acct, env), <<"getAccount">>)

SolanaVerify_NoCatch(pp, req, acct, env) ==
  SolanaVerifyTry(pp, req, acct, env)

\* SolanaFacilitator.verify: the try block and its catch.
SolanaVerify(pp, req, acct, env) ==
  LET r == SolanaVerifyTry(pp, req, acct, env)
  IN IF r.threw
       THEN Returned(VerifyFail("unexpected_error", Absent), r.reads)
       ELSE r

SolanaSettled(resp, reads, writes, acct) ==
  [threw |-> FALSE, resp |-> resp, reads |-> reads, writes |-> writes,
   tokenAccount |-> acct]

\* The signature (transaction id) the cluster returns for a broadcast blob.
TxSignature(tx) == <<"sig", tx>>

\* connection.sendTransaction(versionedTx, ...): the blob as received.
SendVersioned(tx) == [call |-> "sendTransaction", transaction |-> tx, signers |-> <<>>]

\* sendAndConfirmTransaction(connection, legacyTx, keypair ? [keypair] : []).
SendLegacy(tx, kp) ==
  [call |-> "sendAndConfirmTransaction", transaction |-> tx,
   signers |-> IF kp # NullKeypair THEN <<kp>> ELSE <<>>]

\* The cluster executing the transaction's transfer.
LedgerDebit(acct, payer, tx) == [acct EXCEPT ![payer] = @ - TxAmount(tx)]

\* The cluster executes the transaction without error: the payer's token
\* account covers the transfer and no other instruction fails.
Executes(acct, payer, tx, env) ==
  acct[payer] # NoAccount /\ acct[payer] >= TxAmount(tx) /\ env # "err"

\* The catch of SolanaFacilitator.settle.
SolanaSettleCatch(network) ==
  SettleFail("settlement_failed", Absent, Absent, network)

SolanaConfirm_ErrIgnored(pp, payer, acct, env, rd, writes) ==
  LET tx == pp.payload.transaction
      executes == Executes(acct, payer, tx, env)
  IN IF env = "confirmTransaction"
       THEN SolanaSettled(SolanaSettleCatch(pp.network), rd, writes,
                          IF executes THEN LedgerDebit(acct, payer, tx) ELSE acct)
     ELSE SolanaSettled(SettleOk(TxSignature(tx), payer, pp.network),
                        Append(rd, "confirmTransaction"), writes,
                        IF executes THEN LedgerDebit(acct, payer, tx) ELSE acct)

\* connection.confirmTransaction(signature) and the mapping of its result
\* (rd: the reads made so far, writes: the submissions made).
SolanaConfirm(pp, payer, acct, env, rd, writes) ==
  LET tx == pp.payload.transaction
      executes == Executes(acct, payer, tx, env)
  IN IF env = "confirmTransaction"
       THEN SolanaSettled(SolanaSettleCatch(pp.network), rd, writes,
                          IF executes THEN LedgerDebit(acct, payer, tx) ELSE acct)
     ELSE IF ~executes
       THEN SolanaSettled(SettleFail("settlement_failed", TxSignature(tx), payer, pp.network),
                          Append(rd, "confirmTransaction"), writes, acct)
     ELSE SolanaSettled(SettleOk(TxSignature(tx), payer, pp.network),
                        Append(rd, "confirmTransaction"), writes,
                        LedgerDebit(acct, payer, tx))

\* SolanaFacilitator.settle. The first try sends the blob in the versioned
\* format; its catch (entered when the deserializer or the send throws) sends
\* it in the legacy format, where sendAndConfirmTransaction throws both when
\* the send fails and when the transaction executes with an error.
SolanaSettle(pp, req, acct, env, kp) ==
  LET tx == pp.payload.transaction
      verification == SolanaVerify(pp, req, acct, env)
      rd == verification.reads
      payer == verification.resp.payer
      Caught(writes, ac) == SolanaSettled(SolanaSettleCatch(pp.network), rd, writes, ac)
      first == IF DecodeVersioned(tx) # DecodeFails THEN <<SendVersioned(tx)>> ELSE <<>>
      firstSent == first # <<>> /\ env # "sendTransaction"
  IN IF ~verification.resp.isValid
       THEN SolanaSettled(SettleFail(verification.resp.invalidReason, Absent,
                                     verification.resp.payer, pp.network),
                          rd, <<>>, acct)
     ELSE IF firstSent THEN SolanaConfirm(pp, payer, acct, env, rd, first)
     ELSE IF DecodeLegacy(tx) = DecodeFails THEN Caught(first, acct)
     ELSE IF env = "sendTransaction" \/ ~Executes(acct, payer, tx, env)
       THEN Caught(Append(first, SendLegacy(tx, kp)), acct)
     ELSE SolanaConfirm(pp, payer, acct, env, rd, Append(first, SendLegacy(tx, kp)))

\* The constructor's reading of SOLANA_PRIVATE_KEY: a keypair, or null when
\* the key is unset or in neither accepted format.
SolanaKeypairOf(configured) ==
  IF configured = GoodKey THEN FacilitatorKeypair ELSE NullKeypair

\* ------------------------------------------------------------------ calls
\* The requests the model sends. One payer per ledger; the authorization is
\* valid from second 1 to second 2.
EvmPayer == "0xaa"
SolanaPayer == "SoPayer"

EvmCallNetworks == {"base", "eip155:84532", "eip155:1"}
SolanaCallNetworks == {"solana", "solana-testnet"}
Nonces == {"0x01", "0x02"}

EvmPayload(n, sg, t, v, nc) ==
  [network |-> n,
   payload |-> [signature |-> sg,
                authorization |-> [from |-> EvmPayer, to |-> t, value |-> v,
                                   validAfter |-> "1", validBefore |-> "2",
                                   nonce |-> nc]]]

\* Every signature, recipient and amount on one network and nonce, and the
\* well-formed authorizations on every network and nonce.
EvmPayloads ==
  {EvmPayload("base", sg, t, v, "0x01") :
     sg \in Signatures, t \in {"0xBB", "0xcc"}, v \in {"1", "2", "01"}}
  \cup
  {EvmPayload(n, "sig_by_from", "0xBB", v, nc) :
     n \in EvmCallNetworks, v \in {"1", "2"}, nc \in Nonces}

SolanaPayloads ==
  {[network |-> n, payload |-> [transaction |-> tx]] :
     n \in SolanaCallNetworks,
     tx \in {"tx_versioned", "tx_legacy", "tx_legacy_nofeepayer", "tx_garbage"}}
  \cup {[network |-> "solana", payload |-> [transaction |-> tx]] :
          tx \in {"tx_versioned_big", "tx_both"}}

\* paymentRequirements.extensions?.bazaar when the requirements carry none.
NoBazaar == [present |-> FALSE]

Requirements ==
  {[scheme |-> "exact", network |-> "base", maxAmountRequired |-> m,
    resource |-> "/r1", description |-> Absent, payTo |-> "0xbb",
    asset |-> "usdc", bazaar |-> NoBazaar] :
     m \in {"1", "2"}}
  \cup
  {[scheme |-> "exact", network |-> "solana", maxAmountRequired |-> "1",
    resource |-> "/r1", description |-> Absent, payTo |-> "SoPayee",
    asset |-> "usdc", bazaar |-> NoBazaar]}

\* The RPC call that fails during one call ("none": all of them work;
\* "reverted" / "err": the transaction is included but its execution fails).
BaseVerifyEnvs == {"none", "balanceOf", "authorizationState"}
BaseSettleEnvs == BaseVerifyEnvs \cup {"writeContract", "waitForTransactionReceipt", "reverted"}
SolanaVerifyEnvs == {"none", "getAccount"}
SolanaSettleEnvs == SolanaVerifyEnvs \cup {"sendTransaction", "confirmTransaction", "err"}

\* No call in progress: the last response was handed to its caller.
NoCall == [op |-> "none"]

\* The clock, the ledgers and the registry as a call finds them.
Before ==
  [now |-> now, balance |-> balance, nonceUsed |-> nonceUsed,
   tokenAccount |-> tokenAccount, resourceRegistry |-> resourceRegistry]

Call(op, family, pp, req, env, r, writes) ==
  [op |-> op, family |-> family, pp |-> pp, req |-> req, env |-> env,
   pre |-> Before, threw |-> r.threw, resp |-> r.resp, reads |-> r.reads,
   writes |-> writes]

Init ==
  /\ now = 0
  /\ balance = [a \in {EvmPayer} |-> 0]
  /\ nonceUsed = {}
  /\ tokenAccount = [p \in {SolanaPayer} |-> NoAccount]
  /\ privateKey \in {NoKey, BadKey, GoodKey}
  /\ keypair \in {SolanaKeypairOf(k) : k \in {NoKey, BadKey, GoodKey}}
  /\ resourceRegistry = <<>>
  /\ last = NoCall
  /\ inflight = <<>>

BaseVerifyCall_KeyGated ==
  /\ last.op = "none"
  /\ \E pp \in EvmPayloads, req \in Requirements, env \in BaseVerifyEnvs :
       last' = Call("verify", "base", pp, req, env,
                    IF privateKey = NoKey
                      THEN Returned(VerifyFail("unexpected_error", Absent), <<>>)
                      ELSE BaseVerify(pp, req, now, balance, nonceUsed, env), <<>>)
  /\ UNCHANGED <<now, balance, nonceUsed, tokenAccount, privateKey, keypair,
                 resourceRegistry, inflight>>

\* baseFacilitator.verify(paymentPayload, requirements)
BaseVerifyCall ==
  /\ last.op = "none"
  /\ \E pp \in EvmPayloads, req \in Requirements, env \in BaseVerifyEnvs :
       last' = Call("verify", "base", pp, req, env,
                    BaseVerify(pp, req, now, balance, nonceUsed, env), <<>>)
  /\ UNCHANGED <<now, balance, nonceUsed, tokenAccount, privateKey, keypair,
                 resourceRegistry, inflight>>

\* baseFacilitator.settle(paymentPayload, requirements)
BaseSettleCall ==
  /\ last.op = "none"
  /\ \E pp \in EvmPayloads, req \in Requirements, env \in BaseSettleEnvs :
       LET r == BaseSettle(pp, req, now, balance, nonceUsed, env, privateKey)
       IN /\ last' = Call("settle", "base", pp, req, env, r, r.writes)
          /\ balance' = r.balance
          /\ nonceUsed' = r.nonceUsed
  /\ UNCHANGED <<now, tokenAccount, privateKey, keypair, resourceRegistry,
                 inflight>>

\* solanaFacilitator.verify(paymentPayload, requirements)
SolanaVerifyCall ==
  /\ last.op = "none"
  /\ \E pp \in SolanaPayloads, req \in Requirements, env \in SolanaVerifyEnvs :
       last' = Call("verify", "solana", pp, req, env,
                    SolanaVerify(pp, req, tokenAccount, env), <<>>)
  /\ UNCHANGED <<now, balance, nonceUsed, tokenAccount, privateKey, keypair,
                 resourceRegistry, inflight>>

\* solanaFacilitator.settle(paymentPayload, requirements)
SolanaSettleCall ==
  /\ last.op = "none"
  /\ \E pp \in SolanaPayloads, req \in Requirements, env \in SolanaSettleEnvs :
       LET r == SolanaSettle(pp, req, tokenAccount, env, keypair)
       IN /\ last' = Call("settle", "solana", pp, req, env, r, r.writes)
          /\ tokenAccount' = r.tokenAccount
  /\ UNCHANGED <<now, balance, nonceUsed, privateKey, keypair, resourceRegistry,
                 inflight>>

\* The response reaches the caller; payload and requirements are dropped.
Return ==
  /\ last.op # "none"
  /\ last' = NoCall
  /\ UNCHANGED <<now, balance, nonceUsed, tokenAccount, privateKey, keypair,
                 resourceRegistry, inflight>>

\* A second passes.
Tick ==
  /\ last.op = "none"
  /\ now < MaxNow
  /\ now' = now + 1
  /\ UNCHANGED <<balance, nonceUsed, tokenAccount, privateKey, keypair,
                 resourceRegistry, last, inflight>>

\* Someone else's transfer credits the payer on the Base ledger.
Credit ==
  /\ last.op = "none"
  /\ balance[EvmPayer] < MaxBal
  /\ balance' = [balance EXCEPT ![EvmPayer] = @ + 1]
  /\ UNCHANGED <<now, nonceUsed, tokenAccount, privateKey, keypair,
                 resourceRegistry, last, inflight>>

\* The payer's token account is created, or credited, on the Solana ledger.
SolanaCredit ==
  /\ last.op = "none"
  /\ tokenAccount[SolanaPayer] < MaxBal
  /\ tokenAccount' = [tokenAccount EXCEPT ![SolanaPayer] = @ + 1]
  /\ UNCHANGED <<now, balance, nonceUsed, privateKey, keypair, resourceRegistry,
                 last, inflight>>

Next ==
  \/ BaseVerifyCall
  \/ BaseSettleCall
  \/ SolanaVerifyCall
  \/ SolanaSettleCall
  \/ Return
  \/ Tick
  \/ Credit
  \/ SolanaCredit

Spec == Init /\ [][Next]_vars

\* ------------------------------------------------------------------ discovery
\* extractDiscoveryInfo giving null.
NoResource == [absent |-> TRUE]

\* A DiscoveredResource without metadata.
NoMetadata == [present |-> FALSE]

\* The truthiness JavaScript gives an optional string.
Truthy(v) == v # Absent /\ v # ""

extractDiscoveryInfo_NoOptIn(x402Version, req, t) ==
  [resource |-> req.resource, type |-> "http", x402Version |-> x402Version,
   accepts |-> <<[scheme |-> req.scheme, network |-> req.network,
                  amount |-> req.maxAmountRequired, asset |-> req.asset,
                  payTo |-> req.payTo]>>,
   lastUpdated |-> t, metadata |-> NoMetadata]

\* extractDiscoveryInfo(x402Version, paymentRequirements) at time t. The
\* bazaar extension is [present, info, input, example, schema]: info says
\* whether it has an info object, the others are Absent when not set.
extractDiscoveryInfo(x402Version, req, t) ==
  LET ext == req.bazaar
  IN IF ~ext.present THEN NoResource
     ELSE [resource |-> req.resource,
           type |-> "http",
           x402Version |-> x402Version,
           accepts |-> <<[scheme |-> req.scheme, network |-> req.network,
                          amount |-> req.maxAmountRequired, asset |-> req.asset,
                          payTo |-> req.payTo]>>,
           lastUpdated |-> t,
           metadata |->
             IF ext.info \/ Truthy(req.description)
               THEN [present |-> TRUE,
                     description |-> IF Truthy(req.description)
                                       THEN req.description ELSE Absent,
                     input |-> IF ext.info THEN ext.input ELSE Absent,
                     output |-> IF ext.info THEN ext.example ELSE Absent,
                     outputSchema |-> ext.schema]
               ELSE NoMetadata]

\* `${a.network}:${a.asset}`
AcceptKey(a) == Chars(a.network) \o <<":">> \o Chars(a.asset)

\* Position of the entry for a resource URL in the registry (0 when none).
RegistryIndex(registry, url) ==
  IF \E i \in 1..Len(registry) : registry[i].resource = url
    THEN CHOOSE i \in 1..Len(registry) : registry[i].resource = url
    ELSE 0

NewAccepts_NoDedupe(incoming, keys) == incoming

\* The elements of incoming whose key is not among keys, in order.
RECURSIVE NewAccepts(_, _)
NewAccepts(incoming, keys) ==
  IF incoming = <<>> THEN <<>>
  ELSE IF AcceptKey(Head(incoming)) \in keys
    THEN NewAccepts(Tail(incoming), keys)
    ELSE <<Head(incoming)>> \o NewAccepts(Tail(incoming), keys)

Max_Incoming(a, b) == b
Max(a, b) == IF a >= b THEN a ELSE b

\* { ...existing.metadata, ...resource.metadata }
MergeMetadata(old, new) ==
  LET Old(f) == IF old.present THEN old[f] ELSE Absent
      Pick(f) == IF new[f] # Absent THEN new[f] ELSE Old(f)
  IN [present |-> TRUE, description |-> Pick("description"),
      input |-> Pick("input"), output |-> Pick("output"),
      outputSchema |-> Pick("outputSchema")]

\* registerResource(resource): the registry (a Map, kept in insertion order)
\* after it.
registerResource(registry, resource) ==
  LET i == RegistryIndex(registry, resource.resource)
      existing == registry[i]
      existingNetworks ==
        {AcceptKey(existing.accepts[k]) : k \in 1..Len(existing.accepts)}
  IN IF i # 0
       THEN [registry EXCEPT ![i] =
               [existing EXCEPT
                  !.accepts = @ \o NewAccepts(resource.accepts, existingNetworks),
                  !.lastUpdated = resource.lastUpdated,
                  !.x402Version = Max(@, resource.x402Version),
                  !.metadata = IF resource.metadata.present
                                 THEN MergeMetadata(@, resource.metadata)
                                 ELSE @]]
       ELSE Append(registry, resource)

\* catalogFromPayment(x402Version, paymentRequirements)
catalogFromPayment(registry, x402Version, req, t) ==
  LET resource == extractDiscoveryInfo(x402Version, req, t)
  IN IF resource = NoResource THEN registry
     ELSE registerResource(registry, resource)

Min(a, b) == IF a <= b THEN a ELSE b

\* new Date(lastUpdated).getTime(): toISOString keeps the clock reading to the
\* millisecond, so parsing it back gives the reading itself.
getTime(lastUpdated) == lastUpdated

\* Where Array.prototype.sort with the comparator (a, b) => time(b) - time(a)
\* puts item among items already in order; the sort is stable, so item goes
\* behind everything that is at least as recent.
RECURSIVE InsertNewestFirst(_, _)
InsertNewestFirst(item, sorted) ==
  IF sorted = <<>> THEN <<item>>
  ELSE IF getTime(item.lastUpdated) - getTime(Head(sorted).lastUpdated) <= 0
    THEN <<Head(sorted)>> \o InsertNewestFirst(item, Tail(sorted))
    ELSE <<item>> \o sorted

\* items.sort(...) of listResources: newest first.
RECURSIVE SortNewestFirst(_)
SortNewestFirst(items) ==
  IF items = <<>> THEN <<>>
  ELSE InsertNewestFirst(items[Len(items)],
                         SortNewestFirst(SubSeq(items, 1, Len(items) - 1)))

\* An index argument of Array.prototype.slice: a negative one counts from the
\* end, and both are clamped to the array.
RelativeIndex(k, len) == IF k < 0 THEN Max(len + k, 0) ELSE Min(k, len)

\* items.slice(start, end)
ArraySlice(items, start, end) ==
  LET from == RelativeIndex(start, Len(items))
      to == RelativeIndex(end, Len(items))
  IN IF from < to THEN SubSeq(items, from + 1, to) ELSE <<>>

\* The default a destructured parameter takes when it is undefined.
ParamOr(params, field, default) ==
  IF field \in DOMAIN params THEN params[field] ELSE default

\* listResources(params) on the registry.
listResources(registry, params) ==
  LET type == ParamOr(params, "type", "http")
      limit == ParamOr(params, "limit", 20)
      offset == ParamOr(params, "offset", 0)
      OfType(r) == r.type = type
      all == IF type # "" THEN SelectSeq(registry, OfType) ELSE registry
      items == SortNewestFirst(all)
  IN [x402Version |-> 2,
      items |-> ArraySlice(items, offset, offset + limit),
      pagination |-> [limit |-> limit, offset |-> offset, total |-> Len(items)]]

\* The distinct networks of a list of accepts, in the order a Set keeps them.
RECURSIVE AddNetworks(_, _)
AddNetworks(networks, accepts) ==
  IF accepts = <<>> THEN networks
  ELSE AddNetworks(IF \E k \in 1..Len(networks) : networks[k] = Head(accepts).network
                     THEN networks ELSE Append(networks, Head(accepts).network),
                   Tail(accepts))

RECURSIVE RegistryNetworks(_, _)
RegistryNetworks(networks, registry) ==
  IF registry = <<>> THEN networks
  ELSE RegistryNetworks(AddNetworks(networks, Head(registry).accepts), Tail(registry))

\* getStats()
getStats(registry) ==
  [totalResources |-> Len(registry), networks |-> RegistryNetworks(<<>>, registry)]

\* ------------------------------------------------------------------ orchestrator
isEvmNetwork_ShortNamesOnly(network) == Includes(Chars(network), Chars("base"))

\* Helper to determine if payload is EVM or Solana.
isEvmNetwork(network) ==
  Includes(Chars(network), Chars("base")) \/ StartsWith(Chars(network), Chars("eip155:"))

isSolanaNetwork(network) == Includes(Chars(network), Chars("solana"))

\* A request body without paymentPayload / paymentRequirements.
Missing == [absent |-> TRUE]

\* body.paymentPayload.network || paymentPayload.accepted?.network ||
\* paymentRequirements?.network
RequestNetwork(body) ==
  LET pp == body.paymentPayload
      accepted == IF "accepted" \in DOMAIN pp THEN pp.accepted.network ELSE Absent
  IN IF Truthy(pp.network) THEN pp.network
     ELSE IF Truthy(accepted) THEN accepted
     ELSE body.paymentRequirements.network

\* What a handler leaves behind: the HTTP status and body it sends, the
\* backend it called, that backend's reads and submissions, and the ledgers
\* and the registry after it.
Handled(status, backend, r, writes, bal, used, acct, registry) ==
  [status |-> status, backend |-> backend, threw |-> r.threw, resp |-> r.resp,
   reads |-> r.reads, writes |-> writes, balance |-> bal, nonceUsed |-> used,
   tokenAccount |-> acct, resourceRegistry |-> registry]

\* The status a handler derives from the boolean of the response.
StatusOf(ok) == IF ok THEN 200 ELSE 400

PostVerify_CatalogAlways(body, t, bal, used, acct, env, registry) ==
  LET pp == body.paymentPayload
      req == body.paymentRequirements
      network == RequestNetwork(body)
      Reject(reason) ==
        Handled(400, "none", Returned(VerifyFail(reason, Absent), <<>>), <<>>,
                bal, used, acct, registry)
      Respond(backend, r) ==
        Handled(StatusOf(r.resp.isValid), backend, r, <<>>, bal, used, acct,
                catalogFromPayment(registry, body.x402Version, req, t))
  IN IF pp = Missing \/ req = Missing THEN Reject("invalid_payload")
     ELSE IF ~Truthy(network) THEN Reject("invalid_payload")
     ELSE IF isEvmNetwork(network)
       THEN Respond("base", BaseVerify(pp, req, t, bal, used, env))
     ELSE IF isSolanaNetwork(network)
       THEN Respond("solana", SolanaVerify(pp, req, acct, env))
     ELSE Respond("none", Returned(VerifyFail("unsupported_network", Absent), <<>>))

\* POST /verify: route by network, verify, and catalog the resource when the
\* verification is valid.
PostVerify(body, t, bal, used, acct, env, registry) ==
  LET pp == body.paymentPayload
      req == body.paymentRequirements
      network == RequestNetwork(body)
      Reject(reason) ==
        Handled(400, "none", Returned(VerifyFail(reason, Absent), <<>>), <<>>,
                bal, used, acct, registry)
      Respond(backend, r) ==
        Handled(StatusOf(r.resp.isValid), backend, r, <<>>, bal, used, acct,
                IF r.resp.isValid
                  THEN catalogFromPayment(registry, body.x402Version, req, t)
                  ELSE registry)
  IN IF pp = Missing \/ req = Missing THEN Reject("invalid_payload")
     ELSE IF ~Truthy(network) THEN Reject("invalid_payload")
     ELSE IF isEvmNetwork(network)
       THEN Respond("base", BaseVerify(pp, req, t, bal, used, env))
     ELSE IF isSolanaNetwork(network)
       THEN Respond("solana", SolanaVerify(pp, req, acct, env))
     ELSE Respond("none", Returned(VerifyFail("unsupported_network", Absent), <<>>))

\* POST /settle: route by network and settle; the registry is not touched.
PostSettle(body, t, bal, used, acct, env, key, kp, registry) ==
  LET pp == body.paymentPayload
      req == body.paymentRequirements
      network == RequestNetwork(body)
      Reject(status, reason, nw) ==
        Handled(status, "none",
                Returned(SettleFail(reason, Absent, Absent, nw), <<>>), <<>>,
                bal, used, acct, registry)
      FromBase(r) ==
        Handled(StatusOf(r.resp.success), "base", r, r.writes, r.balance,
                r.nonceUsed, acct, registry)
      FromSolana(r) ==
        Handled(StatusOf(r.resp.success), "solana", r, r.writes, bal, used,
                r.tokenAccount, registry)
  IN IF pp = Missing \/ req = Missing THEN Reject(400, "invalid_payload", Absent)
     ELSE IF ~Truthy(network) THEN Reject(400, "invalid_payload", Absent)
     ELSE IF isEvmNetwork(network)
       THEN IF key = NoKey THEN Reject(503, "settlement_failed", network)
            ELSE FromBase(BaseSettle(pp, req, t, bal, used, env, key))
     ELSE IF isSolanaNetwork(network)
       THEN FromSolana(SolanaSettle(pp, req, acct, env, kp))
     ELSE Reject(400, "unsupported_network", network)

\* ------------------------------------------------------------------ requests
\* The HTTP requests the model sends to the orchestrator.
Bazaar ==
  [present |-> TRUE, info |-> TRUE, input |-> "in", example |-> Absent,
   schema |-> Absent]

OrchRequirement(n, d, ext) ==
  [scheme |-> "exact", network |-> n, maxAmountRequired |-> "1",
   resource |-> "/r1", description |-> d, payTo |-> "0xbb", asset |-> "usdc",
   bazaar |-> ext]

OrchRequirements ==
  {OrchRequirement(n, d, ext) :
     n \in {"base", "solana"}, d \in {Absent}, ext \in {NoBazaar, Bazaar}}
  \cup {OrchRequirement("base", "desc", Bazaar)}

\* A well-formed authorization of the required amount to the required payee.
GoodEvmPayload == EvmPayload("base", "sig_by_from", "0xBB", "1", "0x01")

\* An x402 v2 payload: no network at the root, one under accepted.
V2Payload ==
  [network |-> Absent, accepted |-> [network |-> "base"],
   payload |-> GoodEvmPayload.payload]

SolanaPayload(n, tx) == [network |-> n, payload |-> [transaction |-> tx]]

\* The networks GET /supported lists for each family.
EvmSupported == {"base", "base-sepolia", "eip155:8453", "eip155:84532"}
SolanaSupported ==
  {"solana", "solana-devnet", "solana:5eykt4UsFv8P8NJdTREpY1vzqKqZKvdp",
   "solana:EtWTRABZaYq6iMfeYKouRu166VU2xqa1"}

\* A good payload on every supported network, one payload for each way of
\* failing, and payloads on networks that are not supported.
OrchPayloads ==
  {EvmPayload(n, "sig_by_from", "0xBB", "1", "0x01") : n \in EvmSupported}
  \cup {SolanaPayload(n, "tx_versioned") : n \in SolanaSupported}
  \cup
  {EvmPayload("base", "sig_by_other", "0xBB", "1", "0x01"),
   EvmPayload("base", "sig_malformed", "0xBB", "1", "0x01"),
   EvmPayload("base", "sig_by_from", "0xcc", "1", "0x01"),
   EvmPayload("base", "sig_by_from", "0xBB", "2", "0x01"),
   EvmPayload("bitcoin", "sig_by_from", "0xBB", "1", "0x01"),
   V2Payload,
   SolanaPayload("solana", "tx_legacy"),
   SolanaPayload("solana", "tx_garbage"),
   SolanaPayload("solana-base", "tx_versioned"),
   SolanaPayload("solana-testnet", "tx_versioned"),
   EvmPayload("eip155:1", "sig_by_from", "0xBB", "1", "0x01")}

Body(x402Version, pp, req) ==
  [x402Version |-> x402Version, paymentPayload |-> pp, paymentRequirements |-> req]

\* The good payload and the signed transaction under every requirement and
\* version, every payload under one requirement, and the bodies lacking a part.
Bodies ==
  {Body(v, pp, req) :
     v \in {1, 2},
     pp \in {GoodEvmPayload,
             [network |-> "solana", payload |-> [transaction |-> "tx_versioned"]]},
     req \in OrchRequirements}
  \cup {Body(1, pp, OrchRequirement("base", Absent, Bazaar)) : pp \in OrchPayloads}
  \cup {Body(1, Missing, OrchRequirement("base", Absent, Bazaar)),
        Body(1, GoodEvmPayload, Missing)}

OrchVerifyEnvs == {"none", "balanceOf"}
OrchSettleEnvs == {"none", "reverted"}

HttpCall(op, body, env, h) ==
  [op |-> op, family |-> h.backend, x402Version |-> body.x402Version,
   pp |-> body.paymentPayload, req |-> body.paymentRequirements, env |-> env,
   pre |-> Before, threw |-> h.threw, resp |-> h.resp, reads |-> h.reads,
   writes |-> h.writes, status |-> h.status]

\* The server after start-up: both keys configured or neither, an empty
\* registry.
InitOrch ==
  /\ now = 0
  /\ balance = [a \in {EvmPayer} |-> 0]
  /\ nonceUsed = {}
  /\ tokenAccount = [p \in {SolanaPayer} |-> NoAccount]
  /\ privateKey \in {NoKey, GoodKey}
  /\ keypair = SolanaKeypairOf(privateKey)
  /\ resourceRegistry = <<>>
  /\ last = NoCall
  /\ inflight = <<>>

\* app.post('/verify', ...)
PostVerifyCall ==
  /\ last.op = "none"
  /\ \E body \in Bodies, env \in OrchVerifyEnvs :
       \E h \in {PostVerify(body, now, balance, nonceUsed, tokenAccount, env,
                            resourceRegistry)} :
          /\ last' = HttpCall("verify", body, env, h)
          /\ resourceRegistry' = h.resourceRegistry
  /\ UNCHANGED <<now, balance, nonceUsed, tokenAccount, privateKey, keypair,
                 inflight>>

\* app.post('/settle', ...)
PostSettleCall ==
  /\ last.op = "none"
  /\ \E body \in Bodies, env \in OrchSettleEnvs :
       \E h \in {PostSettle(body, now, balance, nonceUsed, tokenAccount, env,
                            privateKey, keypair, resourceRegistry)} :
          /\ last' = HttpCall("settle", body, env, h)
          /\ balance' = h.balance
          /\ nonceUsed' = h.nonceUsed
          /\ tokenAccount' = h.tokenAccount
          /\ resourceRegistry' = h.resourceRegistry
  /\ UNCHANGED <<now, privateKey, keypair, inflight>>

NextOrch ==
  \/ PostVerifyCall
  \/ PostSettleCall
  \/ Return
  \/ Tick
  \/ Credit
  \/ SolanaCredit

SpecOrch == InitOrch /\ [][NextOrch]_vars

\* ------------------------------------------------------------------ catalog traffic
\* Verify requests for two resources, payable on two networks, with and
\* without the discovery extension, sent to a server whose payers are funded.
CatalogRequirement(url, n, d, ext) ==
  [scheme |-> "exact", network |-> n, maxAmountRequired |-> "1",
   resource |-> url, description |-> d, payTo |-> "0xbb", asset |-> "usdc",
   bazaar |-> ext]

\* Two requirements for one resource whose (network, asset) pairs differ:
\* ("eip155:8453", "usdc") and ("eip155", "8453:usdc").
PairRequirements ==
  {CatalogRequirement("/r2", "eip155:8453", Absent, Bazaar),
   [CatalogRequirement("/r2", "eip155", Absent, Bazaar) EXCEPT !.asset = "8453:usdc"]}

CatalogRequirements ==
  {CatalogRequirement("/r1", n, Absent, ext) :
     n \in {"base", "solana"}, ext \in {NoBazaar, Bazaar}}
  \cup {CatalogRequirement("/r1", "base", "desc", Bazaar),
        CatalogRequirement("/r2", "base", Absent, NoBazaar)}
  \cup PairRequirements

\* Requirements for a pair of network and asset that CatalogRequirements has
\* too, naming another payee.
OtherPayeeRequirement ==
  [CatalogRequirement("/r1", "solana", Absent, Bazaar) EXCEPT !.payTo = "0xcc"]

CatalogBodies ==
  {Body(v, SolanaPayload("solana", "tx_versioned"), req) :
     v \in {1, 2}, req \in CatalogRequirements}
  \cup {Body(1, SolanaPayload("solana", "tx_versioned"), OtherPayeeRequirement)}
  \cup {Body(1, GoodEvmPayload, CatalogRequirement("/r1", "base", Absent, Bazaar)),
        Body(1, SolanaPayload("solana", "tx_garbage"),
             CatalogRequirement("/r2", "base", Absent, Bazaar))}

InitCatalog ==
  /\ now = 0
  /\ balance = [a \in {EvmPayer} |-> MaxBal]
  /\ nonceUsed = {}
  /\ tokenAccount = [p \in {SolanaPayer} |-> MaxBal]
  /\ privateKey = NoKey
  /\ keypair = SolanaKeypairOf(privateKey)
  /\ resourceRegistry = <<>>
  /\ last = NoCall
  /\ inflight = <<>>

\* app.post('/verify', ...) on the catalog traffic.
CatalogVerifyCall ==
  /\ last.op = "none"
  /\ \E body \in CatalogBodies :
       \E h \in {PostVerify(body, now, balance, nonceUsed, tokenAccount, "none",
                            resourceRegistry)} :
          /\ last' = HttpCall("verify", body, "none", h)
          /\ resourceRegistry' = h.resourceRegistry
  /\ UNCHANGED <<now, balance, nonceUsed, tokenAccount, privateKey, keypair,
                 inflight>>

NextCatalog ==
  \/ CatalogVerifyCall
  \/ Return
  \/ Tick

SpecCatalog == InitCatalog /\ [][NextCatalog]_vars

\* ------------------------------------------------------------------ discovery
\* parseInt(req.query.x as string) || fallback: the leading integer of the
\* query string, the fallback when there is none (NaN), when it is 0 and when
\* the parameter is missing.
QueryInt(v, fallback) ==
  IF v = Absent THEN fallback
  ELSE LET cs == Chars(v)
           negative == cs # <<>> /\ Head(cs) = "-"
           digits == IF negative THEN Tail(cs) ELSE cs
           n == DigitPrefix(digits)
           m == DecVal(SubSeq(digits, 1, n))
       IN IF n = 0 \/ m = 0 THEN fallback
          ELSE IF negative THEN 0 - m ELSE m

\* The params GET /discovery/resources builds from its query string.
QueryParams(query) ==
  [type |-> IF Truthy(query.type) THEN query.type ELSE "http",
   limit |-> QueryInt(query.limit, 20),
   offset |-> QueryInt(query.offset, 0)]

Query(type, limit, offset) == [type |-> type, limit |-> limit, offset |-> offset]

\* The query strings sent to GET /discovery/resources.
Queries ==
  {Query(Absent, l, o) : l \in {Absent, "1", "-1"}, o \in {Absent, "1", "-1"}}
  \cup {Query("mcp", Absent, Absent), Query(Absent, "0", Absent),
        Query(Absent, "2", "1"), Query(Absent, "x", "2")}

DiscoveryPayload == SolanaPayload("solana", "tx_versioned")

\* Valid payments for three resources, one of them under two networks and
\* two protocol versions, one without the extension, and one payment that
\* does not decode.
DiscoveryVerifyBodies ==
  {Body(1, DiscoveryPayload, CatalogRequirement(url, "solana", Absent, Bazaar)) :
     url \in {"/r1", "/r2", "/r3"}}
  \cup {Body(2, DiscoveryPayload, CatalogRequirement("/r1", "base", Absent, Bazaar)),
        Body(1, DiscoveryPayload, CatalogRequirement("/r3", "base", Absent, NoBazaar)),
        Body(1, SolanaPayload("solana", "tx_garbage"),
             CatalogRequirement("/r2", "base", Absent, Bazaar))}

DiscoverySettleBodies ==
  {Body(1, DiscoveryPayload, CatalogRequirement("/r3", "base", Absent, Bazaar))}

\* A funded payer, both keys configured, an empty registry.
InitDiscovery ==
  /\ now = 0
  /\ balance = [a \in {EvmPayer} |-> MaxBal]
  /\ nonceUsed = {}
  /\ tokenAccount = [p \in {SolanaPayer} |-> MaxBal]
  /\ privateKey = GoodKey
  /\ keypair = SolanaKeypairOf(privateKey)
  /\ resourceRegistry = <<>>
  /\ last = NoCall
  /\ inflight = <<>>

\* app.post('/verify', ...) on the discovery traffic.
DiscoveryVerifyCall ==
  /\ last.op = "none"
  /\ \E body \in DiscoveryVerifyBodies :
       \E h \in {PostVerify(body, now, balance, nonceUsed, tokenAccount, "none",
                            resourceRegistry)} :
          /\ last' = HttpCall("verify", body, "none", h)
          /\ resourceRegistry' = h.resourceRegistry
  /\ UNCHANGED <<now, balance, nonceUsed, tokenAccount, privateKey, keypair,
                 inflight>>

\* app.post('/settle', ...) on the discovery traffic.
DiscoverySettleCall ==
  /\ last.op = "none"
  /\ \E body \in DiscoverySettleBodies :
       \E h \in {PostSettle(body, now, balance, nonceUsed, tokenAccount, "none",
                            privateKey, keypair, resourceRegistry)} :
          /\ last' = HttpCall("settle", body, "none", h)
          /\ balance' = h.balance
          /\ nonceUsed' = h.nonceUsed
          /\ tokenAccount' = h.tokenAccount
          /\ resourceRegistry' = h.resourceRegistry
  /\ UNCHANGED <<now, privateKey, keypair, inflight>>

\* app.get('/discovery/resources', ...)
ListCall ==
  /\ last.op = "none"
  /\ \E query \in Queries :
       last' = [op |-> "list", query |-> query, params |-> QueryParams(query),
                pre |-> Before, status |-> 200,
                resp |-> listResources(resourceRegistry, QueryParams(query))]
  /\ UNCHANGED <<now, balance, nonceUsed, tokenAccount, privateKey, keypair,
                 resourceRegistry, inflight>>

\* app.get('/discovery/stats', ...)
StatsCall ==
  /\ last.op = "none"
  /\ last' = [op |-> "stats", pre |-> Before, status |-> 200,
              resp |-> getStats(resourceRegistry)]
  /\ UNCHANGED <<now, balance, nonceUsed, tokenAccount, privateKey, keypair,
                 resourceRegistry, inflight>>

NextDiscovery ==
  \/ DiscoveryVerifyCall
  \/ DiscoverySettleCall
  \/ ListCall
  \/ StatsCall
  \/ Return
  \/ Tick

SpecDiscovery == InitDiscovery /\ [][NextDiscovery]_vars

\* ------------------------------------------------------------------ concurrent settles
\* Requests the server works on at the same time. Every await of a handler
\* gives the other requests a turn, so a request advances one RPC call at a
\* time; inflight keeps each request with the values it has read so far.
RacePayloads == {EvmPayload("base", "sig_by_from", "0xBB", "1", nc) : nc \in Nonces}

RaceRequirement == OrchRequirement("base", Absent, NoBazaar)

NoResponse == [pending |-> TRUE]

\* baseFacilitator.settle(pp, req) entered at time t: without a private key it
\* fails at once, otherwise its verification starts by reading the clock.
NewSettle(pp, req, t, key) ==
  [op |-> "settle", pp |-> pp, req |-> req, t |-> t,
   bal |-> [a \in {EvmPayer} |-> 0], reads |-> <<>>, writes |-> <<>>,
   receipt |-> "none",
   stage |-> IF key = NoKey THEN "done" ELSE "balanceOf",
   resp |-> IF key = NoKey
              THEN SettleFail("settlement_failed", Absent, Absent, pp.network)
              ELSE NoResponse]

Done(r, resp) == [r EXCEPT !.stage = "done", !.resp = resp]

\* What waitForTransactionReceipt's answer makes settle return.
ReceiptResponse_StatusIgnored(pp, status) ==
  SettleOk(TxHash(pp.payload.authorization), pp.payload.authorization.from, pp.network)
ReceiptResponse(pp, status) ==
  LET a == pp.payload.authorization
  IN IF status = "success" THEN SettleOk(TxHash(a), a.from, pp.network)
     ELSE SettleFail("settlement_failed", TxHash(a), a.from, pp.network)

\* The token contract executing transferWithAuthorization: it reverts when
\* (from, nonce) is consumed or the balance does not cover the value.
ContractAccepts(bal, used, a) ==
  <<a.from, a.nonce>> \notin used /\ bal[a.from] >= BigInt(a.value)

InitRace ==
  /\ now = 0
  /\ balance = [a \in {EvmPayer} |-> MaxBal]
  /\ nonceUsed = {}
  /\ tokenAccount = [p \in {SolanaPayer} |-> NoAccount]
  /\ privateKey \in {NoKey, GoodKey}
  /\ keypair = SolanaKeypairOf(privateKey)
  /\ resourceRegistry = <<>>
  /\ last = NoCall
  /\ inflight = <<>>

\* A settle call arrives.
SettleArrive ==
  /\ Len(inflight) < MaxInflight
  /\ \E pp \in RacePayloads :
       inflight' = Append(inflight, NewSettle(pp, RaceRequirement, now, privateKey))
  /\ UNCHANGED <<now, balance, nonceUsed, tokenAccount, privateKey, keypair,
                 resourceRegistry, last>>

\* The verification of a settle reads the payer's balance.
SettleReadBalance(i) ==
  /\ inflight[i].stage = "balanceOf"
  /\ inflight' = [inflight EXCEPT ![i] =
                    [@ EXCEPT !.bal = balance, !.stage = "authorizationState"]]
  /\ UNCHANGED <<now, balance, nonceUsed, tokenAccount, privateKey, keypair,
                 resourceRegistry, last>>

\* The verification reads the state of the nonce and concludes; settle goes
\* on to submit only when it passed.
SettleReadNonce(i) ==
  /\ inflight[i].stage = "authorizationState"
  /\ \E r \in {inflight[i]} :
       \E v \in {BaseVerify(r.pp, r.req, r.t, r.bal, nonceUsed, "none")} :
          inflight' = [inflight EXCEPT ![i] =
                         IF ~v.resp.isValid
                           THEN Done([r EXCEPT !.reads = v.reads],
                                     BaseAbort(v, r.pp.network))
                           ELSE [r EXCEPT !.reads = v.reads,
                                          !.stage = "writeContract"]]
  /\ UNCHANGED <<now, balance, nonceUsed, tokenAccount, privateKey, keypair,
                 resourceRegistry, last>>

\* writeContract hands the transfer to the network and returns its hash.
SettleSubmit(i) ==
  /\ inflight[i].stage = "writeContract"
  /\ \E r \in {inflight[i]} :
       inflight' = [inflight EXCEPT ![i] =
                      [r EXCEPT !.writes = <<TransferCall(r.pp, privateKey)>>,
                                !.stage = "pending"]]
  /\ UNCHANGED <<now, balance, nonceUsed, tokenAccount, privateKey, keypair,
                 resourceRegistry, last>>

\* writeContract fails instead (the node refuses the transaction): the catch
\* of settle answers.
SettleSubmitFails(i) ==
  /\ inflight[i].stage = "writeContract"
  /\ \E r \in {inflight[i]} :
       inflight' = [inflight EXCEPT ![i] =
                      Done([r EXCEPT !.writes = <<TransferCall(r.pp, privateKey)>>],
                           BaseSettleCatch(r.pp.network))]
  /\ UNCHANGED <<now, balance, nonceUsed, tokenAccount, privateKey, keypair,
                 resourceRegistry, last>>

\* The ledger includes a pending transfer: it executes or reverts.
LedgerInclude(i) ==
  /\ inflight[i].stage = "pending"
  /\ \E a \in {inflight[i].pp.payload.authorization} :
       IF ContractAccepts(balance, nonceUsed, a)
         THEN /\ balance' = LedgerTransfer(balance, a)
              /\ nonceUsed' = LedgerConsume(nonceUsed, a)
              /\ inflight' = [inflight EXCEPT ![i] =
                                [@ EXCEPT !.receipt = "success", !.stage = "included"]]
         ELSE /\ UNCHANGED <<balance, nonceUsed>>
              /\ inflight' = [inflight EXCEPT ![i] =
                                [@ EXCEPT !.receipt = "reverted", !.stage = "included"]]
  /\ UNCHANGED <<now, tokenAccount, privateKey, keypair, resourceRegistry, last>>

\* waitForTransactionReceipt returns the receipt and settle answers.
SettleReceipt(i) ==
  /\ inflight[i].stage = "included"
  /\ inflight' = [inflight EXCEPT ![i] =
                    Done(@, ReceiptResponse(@.pp, @.receipt))]
  /\ UNCHANGED <<now, balance, nonceUsed, tokenAccount, privateKey, keypair,
                 resourceRegistry, last>>

NextRace ==
  \/ SettleArrive
  \/ \E i \in 1..Len(inflight) : SettleReadBalance(i)
  \/ \E i \in 1..Len(inflight) : SettleReadNonce(i)
  \/ \E i \in 1..Len(inflight) : SettleSubmit(i)
  \/ \E i \in 1..Len(inflight) : SettleSubmitFails(i)
  \/ \E i \in 1..Len(inflight) : LedgerInclude(i)
  \/ \E i \in 1..Len(inflight) : SettleReceipt(i)
  \/ Tick
  \/ Credit

SpecRace == InitRace /\ [][NextRace]_vars

\* ------------------------------------------------------------------ concurrent catalog
\* POST /verify requests in flight together with discovery queries. The
\* verify handler awaits the backend once; what follows the await (the
\* catalog step and the response) and the whole of the list and stats
\* handlers run without yielding.
MergeBodies ==
  {Body(1, DiscoveryPayload, CatalogRequirement("/r1", n, Absent, Bazaar)) :
     n \in {"solana", "base"}}
  \cup {Body(2, DiscoveryPayload, CatalogRequirement("/r2", "solana", Absent, Bazaar)),
        Body(1, SolanaPayload("solana", "tx_garbage"),
             CatalogRequirement("/r2", "base", Absent, Bazaar))}

\* The requests that have been answered.
Answered(requests) == {i \in 1..Len(requests) : requests[i].stage = "done"}

\* resourceRegistry.get(resource.resource) of registerResource reads the
\* registry as it is when the catalog step runs, not as it was when the
\* request arrived.
MergeBase_Stale(live, atArrival) == atArrival
MergeBase(live, atArrival) == live

\* A verify request arrives and its handler awaits the backend.
VerifyArrive ==
  /\ Len(inflight) < MaxInflight
  /\ \E body \in MergeBodies :
       inflight' = Append(inflight,
                          [op |-> "verify", body |-> body, stage |-> "verify",
                           seen |-> resourceRegistry])
  /\ UNCHANGED <<now, balance, nonceUsed, tokenAccount, privateKey, keypair,
                 resourceRegistry, last>>

\* The backend answers: the handler catalogs the resource when the payment
\* is valid and responds. found is the registry the catalog step worked on,
\* left the registry after it, turn the position of this request among the
\* answered ones.
VerifyFinish(i) ==
  /\ inflight[i].stage = "verify"
  /\ \E r \in {inflight[i]} :
       \E base \in {MergeBase(resourceRegistry, r.seen)} :
          \E h \in {PostVerify(r.body, now, balance, nonceUsed, tokenAccount,
                               "none", base)} :
             /\ resourceRegistry' = h.resourceRegistry
             /\ inflight' = [inflight EXCEPT ![i] =
                  [op |-> "verify", body |-> r.body, stage |-> "done",
                   seen |-> r.seen, found |-> base, left |-> h.resourceRegistry,
                   at |-> now, resp |-> h.resp, status |-> h.status,
                   turn |-> Cardinality(Answered(inflight)) + 1]]
  /\ UNCHANGED <<now, balance, nonceUsed, tokenAccount, privateKey, keypair, last>>

NextMerge ==
  \/ VerifyArrive
  \/ \E i \in 1..Len(inflight) : VerifyFinish(i)
  \/ ListCall
  \/ StatsCall
  \/ Return
  \/ Tick

SpecMerge == InitCatalog /\ [][NextMerge]_vars

\* ------------------------------------------------------------------ claims
BaseSupportedNetworks == {"base", "base-sepolia", "eip155:8453", "eip155:84532"}

IsVerify == last.op = "verify"
IsSettle == last.op = "settle"
OnBase == last.family = "base"
OnSolana == last.family = "solana"

\* A standalone verify of the last call's payload and requirements by the
\* backend that served it, on the ledger and clock the call found, with the
\* RPC behaving as env says.
VerifyBefore(env) ==
  IF OnBase
    THEN BaseVerify(last.pp, last.req, last.pre.now, last.pre.balance,
                    last.pre.nonceUsed, env)
    ELSE SolanaVerify(last.pp, last.req, last.pre.tokenAccount, env)

LedgerUntouched ==
  /\ balance = last.pre.balance
  /\ nonceUsed = last.pre.nonceUsed
  /\ tokenAccount = last.pre.tokenAccount

\* The RPC call that env makes fail was made: a ledger read of the
\* verification ...
ReadFaultHit ==
  /\ last.env \in {"balanceOf", "authorizationState", "getAccount"}
  /\ last.reads # <<>>
  /\ last.reads[Len(last.reads)] = last.env

\* ... or the submission of the transaction or the wait for its inclusion.
WriteFaultHit ==
  /\ last.env \in {"writeContract", "waitForTransactionReceipt",
                   "sendTransaction", "confirmTransaction"}
  /\ last.writes # <<>>

\* C1: on either backend, settle returns success: true only if a standalone
\* verify of the same payload and requirements on the same ledger state and
\* time returns isValid: true.
SettleOnlyIfVerifyValid ==
  (IsSettle /\ last.resp.success) => VerifyBefore("none").resp.isValid

SettleSucceeded == IsSettle /\ OnBase /\ last.resp.success /\ last.writes # <<>>

\* The six conditions of the account-authorization verify, read off the
\* authorization, the requirements and the ledger the call found.
TimingOk == 
  LET a == last.pp.payload.authorization
  IN BigInt(a.validAfter) <= last.pre.now /\ last.pre.now <= BigInt(a.validBefore)
AmountOk == last.pp.payload.authorization.value = last.req.maxAmountRequired
RecipientOk ==
  toLowerCase(last.pp.payload.authorization.to) = toLowerCase(last.req.payTo)
SignatureOk == last.pp.payload.signature # "sig_by_other"
FundsOk ==
  LET a == last.pp.payload.authorization
  IN last.pre.balance[a.from] >= BigInt(a.value)
NonceUnused ==
  LET a == last.pp.payload.authorization
  IN <<a.from, a.nonce>> \notin last.pre.nonceUsed

\* C2: account-authorization verify returns isValid: true with payer = from
\* for every authorization on a supported network that is inside its validity
\* window, of the required amount, to the required recipient, signed by from,
\* covered by the balance read and with (from, nonce) read as unused.
ValidAuthorizationVerifies ==
  (/\ IsVerify /\ OnBase
   /\ last.pp.network \in BaseSupportedNetworks
   /\ TimingOk /\ AmountOk /\ RecipientOk
   /\ last.pp.payload.signature = "sig_by_from"
   /\ last.env = "none" /\ FundsOk /\ NonceUnused)
  => /\ last.resp.isValid
     /\ last.resp.payer = last.pp.payload.authorization.from

VerifyAccepted ==
  /\ IsVerify /\ OnBase /\ last.resp.isValid
  /\ last.pre.balance[EvmPayer] = BigInt(last.pp.payload.authorization.value)
  /\ last.pre.nonceUsed # {}

CheckReasons ==
  <<"payment_expired", "amount_mismatch", "recipient_mismatch",
    "invalid_signature", "insufficient_funds", "invalid_payload">>

\* The earliest-ordered check that fails (0 when none does).
FirstFailing ==
  LET ok == <<TimingOk, AmountOk, RecipientOk, SignatureOk, FundsOk, NonceUnused>>
      failing == {i \in 1..6 : ~ok[i]}
  IN IF failing = {} THEN 0 ELSE CHOOSE i \in failing : \A j \in failing : i <= j

VerificationRun == ~(OnBase /\ privateKey = NoKey)

\* C4: when the verification inside settle fails, settle returns success:
\* false with that verification's invalidReason and submits nothing.
FailedVerificationAborts ==
  (IsSettle /\ VerificationRun /\ ~VerifyBefore(last.env).resp.isValid)
  => /\ ~last.resp.success
     /\ last.resp.errorReason = VerifyBefore(last.env).resp.invalidReason
     /\ last.writes = <<>>
     /\ LedgerUntouched

SettleAborted ==
  /\ IsSettle /\ OnBase /\ privateKey = GoodKey
  /\ last.resp.errorReason = "insufficient_funds"
  /\ last.writes = <<>>

KeyMissing ==
  IF OnBase THEN privateKey = NoKey ELSE keypair = NullKeypair

\* A transaction of the last call reached the ledger: one was submitted and
\* the submitting call itself did not fail.
Broadcast ==
  last.writes # <<>> /\ last.env \notin {"writeContract", "sendTransaction"}

\* C5: with no funding key configured for a ledger family, settle on that
\* family never submits a transaction to the ledger and never returns
\* success: true.
NoKeyNoSettlement ==
  (IsSettle /\ KeyMissing) => (~Broadcast /\ ~last.resp.success)

\* C6: account-authorization settle without a funding key returns success:
\* false, settlement_failed, having made no ledger read and no ledger write.
NoKeyFailsBeforeChain ==
  (IsSettle /\ OnBase /\ privateKey = NoKey)
  => /\ ~last.resp.success
     /\ last.resp.errorReason = "settlement_failed"
     /\ last.reads = <<>>
     /\ last.writes = <<>>
     /\ LedgerUntouched

NoKeySettleOfValidPayment ==
  /\ IsSettle /\ OnBase /\ privateKey = NoKey
  /\ VerifyBefore("none").resp.isValid
  /\ last.resp.errorReason = "settlement_failed"

\* A fault occurs inside the last call: an unsupported chain id, a signature
\* or transaction that does not decode, a failing RPC call or failed
\* execution, a private key that is none.
FaultInside ==
  \/ OnBase /\ getChainId(last.pp.network) = Unsupported
  \/ OnBase /\ last.pp.payload.signature = "sig_malformed"
  \/ OnSolana /\ last.pp.payload.transaction = "tx_garbage"
  \/ last.env # "none"
  \/ IsSettle /\ OnBase /\ privateKey = BadKey

ReadFaultIsUnexpectedError ==
  (IsVerify /\ ReadFaultHit)
  => (~last.resp.isValid /\ last.resp.invalidReason = "unexpected_error")

SettleWriteFault ==
  /\ IsSettle /\ WriteFaultHit /\ last.resp.errorReason = "settlement_failed"

\* The request of the last call to the orchestrator.
LastBody == Body(last.x402Version, last.pp, last.req)

\* POST /verify of the last call's body once more, on the ledgers and the
\* registry the call left, at the time and with the RPC of that call.
VerifyAgain ==
  PostVerify(LastBody, last.pre.now, balance, nonceUsed, tokenAccount, last.env,
             resourceRegistry)

\* The second call answers as the last one did and leaves the registry as it
\* found it.
SameAnswerTwice ==
  \E again \in {VerifyAgain} :
     /\ again.resp = last.resp
     /\ again.status = last.status
     /\ again.resourceRegistry = resourceRegistry

NamedPayer ==
  IF OnBase
    THEN IF "authorization" \in DOMAIN last.pp.payload
           THEN last.pp.payload.authorization.from ELSE Absent
    ELSE LET tx == last.pp.payload.transaction
             payer == IF DecodeVersioned(tx) # DecodeFails
                        THEN DecodeVersioned(tx) ELSE DecodeLegacy(tx)
         IN IF payer \in {DecodeFails, ""} THEN Absent ELSE payer

\* C11: a verify result carries the payer whenever the payload names one
\* (on a supported network of the account-authorization backend: also when a
\* later step faults), and omits it only when the payload names none.
PayerCarriedWheneverNamed ==
  (IsVerify /\ (OnBase => last.pp.network \in BaseSupportedNetworks))
  => last.resp.payer = NamedPayer

\* A call was served and its response says it failed.
Failed ==
  /\ last.op # "none"
  /\ IF IsVerify THEN ~last.resp.isValid ELSE ~last.resp.success

\* The reason tag of the last response.
ReasonTag == IF IsVerify THEN last.resp.invalidReason ELSE last.resp.errorReason

ErrorReasons ==
  {"invalid_payload", "invalid_signature", "insufficient_funds",
   "amount_mismatch", "recipient_mismatch", "payment_expired",
   "unsupported_network", "settlement_failed", "unexpected_error"}

\* C12: every failed verify or settle response of the orchestrator, whichever
\* backend produced it, carries a reason tag that is one of the nine values.
FailedResponsesTagged == Failed => ReasonTag \in ErrorReasons

OrchestratorRefusedSettle ==
  /\ IsSettle /\ last.status = 503
  /\ last.family = "none"
  /\ ReasonTag = "settlement_failed"

\* The last request had both parts, so that the handler resolved its network.
Resolved == last.op # "none" /\ last.pp # Missing /\ last.req # Missing

\* The orchestrator answered by itself, calling neither backend.
NoBackendInvoked ==
  last.family = "none" /\ last.reads = <<>> /\ last.writes = <<>> /\ ~last.threw

\* C13: each of the eight supported network identifiers is routed to its
\* family's backend, the short name and the CAIP-2 form to the same one (for
\* settle on an account-authorization network: to that family's branch, which
\* answers 503 itself when no key is configured); bitcoin is answered
\* unsupported_network by verify and settle, with no backend invoked and no
\* fault raised.
NetworksRouted ==
  Resolved =>
    /\ last.pp.network \in EvmSupported =>
         IF IsSettle /\ privateKey = NoKey
           THEN last.status = 503 /\ NoBackendInvoked
           ELSE last.family = "base"
    /\ last.pp.network \in SolanaSupported => last.family = "solana"
    /\ last.pp.network = "bitcoin" =>
         /\ NoBackendInvoked /\ LedgerUntouched
         /\ Failed /\ ReasonTag = "unsupported_network"
         /\ last.status = 400

Caip2RoutedToBase ==
  /\ IsSettle /\ last.family = "base"
  /\ last.pp.network = "eip155:8453"
  /\ last.resp.success

\* C14: no network identifier is accepted by both recognizers (stated of the
\* network of every request the orchestrator resolves).
VocabulariesDisjoint ==
  Resolved =>
    ~(isEvmNetwork(last.pp.network) /\ isSolanaNetwork(last.pp.network))

\* The transaction blob of the last call decodes in neither format.
Undecodable ==
  /\ DecodeVersioned(last.pp.payload.transaction) = DecodeFails
  /\ DecodeLegacy(last.pp.payload.transaction) = DecodeFails

\* C15: signed-transaction verify answers isValid: false, invalid_payload
\* whenever the blob decodes neither as a versioned nor as a legacy
\* transaction.
UndecodableIsInvalidPayload ==
  (IsVerify /\ OnSolana /\ Undecodable)
  => (~last.resp.isValid /\ last.resp.invalidReason = "invalid_payload")

SolanaSupportedNetworks ==
  {"solana", "solana-devnet", "solana:5eykt4UsFv8P8NJdTREpY1vzqKqZKvdp",
   "solana:EtWTRABZaYq6iMfeYKouRu166VU2xqa1"}

\* The payer's token account, as the call found it, exists and holds at least
\* requirements.maxAmountRequired.
Solvent ==
  /\ last.pre.tokenAccount[NamedPayer] # NoAccount
  /\ last.pre.tokenAccount[NamedPayer] >= BigInt(last.req.maxAmountRequired)

Submissions == {last.writes[i] : i \in 1..Len(last.writes)}

\* C17 as stated: every submission of signed-transaction settle, versioned or
\* legacy, carries the payload's transaction as received and no signer of the
\* facilitator's.
BroadcastAsReceived ==
  (IsSettle /\ OnSolana) =>
    \A w \in Submissions :
       /\ w.transaction = last.pp.payload.transaction
       /\ w.signers = <<>>

\* The transfer of the last account-authorization settle was submitted and
\* its receipt was received.
Included ==
  /\ last.writes # <<>>
  /\ last.env \notin {"writeContract", "waitForTransactionReceipt"}

\* C18: when the transaction of account-authorization settle is included
\* with status reverted, settle returns success: false, settlement_failed,
\* with the transaction id and payer = authorization.from; included with
\* status success, it returns success: true with the transaction id and the
\* same payer.
InclusionStatusMapped ==
  (IsSettle /\ OnBase /\ Included) =>
    LET a == last.pp.payload.authorization
    IN /\ last.resp.transaction = TxHash(a)
       /\ last.resp.payer = a.from
       /\ IF last.env = "reverted"
            THEN ~last.resp.success /\ last.resp.errorReason = "settlement_failed"
            ELSE last.resp.success /\ last.resp.errorReason = Absent

RevertedReported ==
  /\ IsSettle /\ OnBase /\ Included /\ last.env = "reverted"
  /\ last.resp.transaction = TxHash(last.pp.payload.authorization)
  /\ ~last.resp.success

\* The confirmTransaction call of the last signed-transaction settle returned.
ConfirmationReceived ==
  \E i \in 1..Len(last.reads) : last.reads[i] = "confirmTransaction"

\* The transaction of the last call executed with an error on the ledger the
\* call found.
ExecutionError ==
  \/ last.env = "err"
  \/ last.pre.tokenAccount[NamedPayer] < TxAmount(last.pp.payload.transaction)

PairsDistinct(accepts) ==
  \A k, l \in 1..Len(accepts) :
     (accepts[k].network = accepts[l].network /\ accepts[k].asset = accepts[l].asset)
     => k = l

\* C20: after any sequence of verify calls the registry holds at most one
\* entry per resource URL, and the accepts list of each entry holds at most
\* one element per (network, asset) pair.
RegistryUnique ==
  /\ \A i, j \in 1..Len(resourceRegistry) :
        resourceRegistry[i].resource = resourceRegistry[j].resource => i = j
  /\ \A i \in 1..Len(resourceRegistry) : PairsDistinct(resourceRegistry[i].accepts)

\* A resource is cataloged again on a pair its entry already lists, in a
\* registry of two entries.
RecatalogedKnownPair ==
  /\ IsVerify /\ last.resp.isValid /\ last.req.bazaar.present
  /\ Len(resourceRegistry) = 2
  /\ \E i \in 1..Len(last.pre.resourceRegistry) :
        LET e == last.pre.resourceRegistry[i]
        IN /\ e.resource = last.req.resource
           /\ Len(e.accepts) = 2
           /\ \E k \in 1..2 : /\ e.accepts[k].network = last.req.network
                              /\ e.accepts[k].asset = last.req.asset

\* The accepts list lists the pair (network, asset).
ListsPair(accepts, network, asset) ==
  \E k \in 1..Len(accepts) :
     accepts[k].network = network /\ accepts[k].asset = asset

\* The registry entries for a resource URL.
EntriesFor(registry, url) ==
  {i \in 1..Len(registry) : registry[i].resource = url}

\* C21: cataloging a resource leaves a single entry for its URL whose accepts
\* list contains the pair just cataloged and every pair cataloged for it
\* before, whatever the strings of the pairs.
EveryPairKept ==
  (IsVerify /\ last.resp.isValid /\ last.req.bazaar.present) =>
    /\ Cardinality(EntriesFor(resourceRegistry, last.req.resource)) = 1
    /\ \A i \in EntriesFor(resourceRegistry, last.req.resource) :
          /\ ListsPair(resourceRegistry[i].accepts, last.req.network, last.req.asset)
          /\ \A j \in EntriesFor(last.pre.resourceRegistry, last.req.resource) :
                \A k \in 1..Len(last.pre.resourceRegistry[j].accepts) :
                   ListsPair(resourceRegistry[i].accepts,
                             last.pre.resourceRegistry[j].accepts[k].network,
                             last.pre.resourceRegistry[j].accepts[k].asset)

\* C22: a verify whose requirements carry no bazaar extension leaves the
\* registry exactly as it found it, for a resource URL that is new and for
\* one that is already registered.
NoExtensionNoCatalog ==
  (IsVerify /\ ~last.req.bazaar.present) =>
    resourceRegistry = last.pre.resourceRegistry

KnownResourceNotOptedIn ==
  /\ IsVerify /\ last.resp.isValid /\ ~last.req.bazaar.present
  /\ EntriesFor(last.pre.resourceRegistry, last.req.resource) # {}

\* The accepts element the catalog builds from payment requirements.
AcceptOf(req) ==
  [scheme |-> req.scheme, network |-> req.network,
   amount |-> req.maxAmountRequired, asset |-> req.asset, payTo |-> req.payTo]

\* The last call was a verify that answered isValid: true to requirements
\* carrying the discovery extension.
CatalogingVerify == IsVerify /\ last.resp.isValid /\ last.req.bazaar.present

Listed == last.op = "list"

\* The positions of the registry entries of a type.
Matching(registry, type) == {i \in 1..Len(registry) : registry[i].type = type}

\* The entries of the type that come before entry i when the newest is first
\* (entries updated at the same time: the one registered first).
Ahead(registry, type, i) ==
  {j \in Matching(registry, type) :
     \/ registry[j].lastUpdated > registry[i].lastUpdated
     \/ registry[j].lastUpdated = registry[i].lastUpdated /\ j < i}

\* The positions [offset, offset + limit) of a listing of total entries.
Window(total, limit, offset) ==
  {p \in 0..(total - 1) : offset <= p /\ p < offset + limit}

\* C24: list(type, limit, offset) reports as total the number of entries of
\* the type, and returns, newest first, exactly the entries at the positions
\* [offset, offset + limit) of that order.
ListIsWindowOfNewestFirst ==
  Listed =>
    LET registry == last.pre.resourceRegistry
        type == last.params.type
        total == Cardinality(Matching(registry, type))
        window == Window(total, last.params.limit, last.params.offset)
    IN /\ last.resp.pagination.total = total
       /\ Len(last.resp.items) = Cardinality(window)
       /\ \A k \in 1..Len(last.resp.items) :
            \E i \in Matching(registry, type) :
               /\ registry[i] = last.resp.items[k]
               /\ Cardinality(Ahead(registry, type, i)) =
                    Max(last.params.offset, 0) + k - 1

TimingChecked ==
  /\ IsVerify /\ OnBase
  /\ getChainId(last.pp.network) # Unsupported
  /\ "authorization" \in DOMAIN last.pp.payload

\* C26: the timing check of the Base verify is inclusive at both ends: at
\* now = validAfter and at now = validBefore the result is not
\* payment_expired, at now = validAfter - 1 and at now = validBefore + 1 it is
\* isValid: false with payment_expired.
TimingInclusive ==
  TimingChecked =>
    LET a == last.pp.payload.authorization
        t == last.pre.now
    IN /\ (t = BigInt(a.validAfter) \/ t = BigInt(a.validBefore)) =>
            last.resp.invalidReason # "payment_expired"
       /\ (t = BigInt(a.validAfter) - 1 \/ t = BigInt(a.validBefore) + 1) =>
            /\ ~last.resp.isValid
            /\ last.resp.invalidReason = "payment_expired"

AcceptedAtValidBefore ==
  /\ TimingChecked /\ last.resp.isValid
  /\ last.pre.now = BigInt(last.pp.payload.authorization.validBefore)

\* Every check of the Base verify that comes before the replay check passes
\* for the last call, and the RPC answers.
EarlierChecksPass ==
  /\ last.pp.network \in BaseSupportedNetworks
  /\ TimingOk /\ AmountOk /\ RecipientOk
  /\ last.pp.payload.signature = "sig_by_from"
  /\ FundsOk /\ last.env = "none"

\* C27: a settle that returns success: true leaves (from, nonce) consumed on
\* the ledger, a consumed nonce stays consumed, and once it is consumed every
\* verify of the authorization returns isValid: false and every settle returns
\* success: false without submitting anything or changing the ledger; the
\* reason is invalid_payload when no earlier check fails.
ConsumedNonceRefused ==
  /\ (IsSettle /\ OnBase /\ last.resp.success) =>
       <<last.pp.payload.authorization.from, last.pp.payload.authorization.nonce>>
         \in nonceUsed
  /\ last.op # "none" => last.pre.nonceUsed \subseteq nonceUsed
  /\ (IsVerify /\ OnBase /\ ~NonceUnused) =>
       /\ ~last.resp.isValid
       /\ EarlierChecksPass => last.resp.invalidReason = "invalid_payload"
  /\ (IsSettle /\ OnBase /\ ~NonceUnused) =>
       /\ ~last.resp.success
       /\ last.writes = <<>>
       /\ LedgerUntouched
       /\ (EarlierChecksPass /\ privateKey # NoKey) =>
            last.resp.errorReason = "invalid_payload"

SettleReplayRefused ==
  /\ IsSettle /\ OnBase /\ ~NonceUnused
  /\ privateKey = GoodKey
  /\ last.resp.errorReason = "invalid_payload"

\* The settle calls for a payload that have answered success: true.
Successes(pp) ==
  {i \in 1..Len(inflight) :
     /\ inflight[i].stage = "done"
     /\ inflight[i].pp = pp
     /\ inflight[i].resp.success}

\* C28: of the concurrent settle calls for one authorization at most one
\* returns success: true, however their steps interleave.
AtMostOneSettles ==
  \A pp \in RacePayloads : Cardinality(Successes(pp)) <= 1

\* Both calls passed their verification and submitted; one succeeded, the
\* other's transfer reverted.
BothSubmittedOneSettled ==
  \E i, j \in 1..Len(inflight) :
     /\ i # j
     /\ inflight[i].pp = inflight[j].pp
     /\ inflight[i].stage = "done" /\ inflight[j].stage = "done"
     /\ inflight[i].resp.success
     /\ inflight[j].receipt = "reverted" /\ ~inflight[j].resp.success

\* C29: a settle call makes at most one submission attempt to the ledger,
\* whether the attempt fails or not.
SingleSubmission ==
  IsSettle => Len(last.writes) <= 1

\* The registry after the merge of the request answered at a turn (the empty
\* registry of the start for turn 0).
RegistryAfter(turn) ==
  IF turn = 0 THEN <<>>
  ELSE (CHOOSE r \in {inflight[i] : i \in Answered(inflight)} : r.turn = turn).left

\* C30: the catalog steps of concurrent verify calls are applied one after
\* the other: each works on the registry the one before it left and leaves
\* the complete merge of its resource (or the registry as found, when it
\* catalogs nothing), so the registry always is the result of the merges
\* made so far in their order and no update is lost; and every list or stats
\* result is the one computed on a registry that lies between two merges.
MergesOneAfterTheOther ==
  /\ \A i \in Answered(inflight) :
       \E r \in {inflight[i]} :
          /\ r.found = RegistryAfter(r.turn - 1)
          /\ r.left =
               IF r.resp.isValid /\ r.body.paymentRequirements.bazaar.present
                 THEN registerResource(r.found,
                        extractDiscoveryInfo(r.body.x402Version,
                                             r.body.paymentRequirements, r.at))
                 ELSE r.found
  /\ resourceRegistry = RegistryAfter(Cardinality(Answered(inflight)))
  /\ last.op \in {"list", "stats"} =>
       \E turn \in 0..Cardinality(Answered(inflight)) :
          /\ last.pre.resourceRegistry = RegistryAfter(turn)
          /\ last.resp = IF Listed
                           THEN listResources(RegistryAfter(turn), last.params)
                           ELSE getStats(RegistryAfter(turn))

\* Two verify calls for the same resource were in flight together and both
\* merges are in the entry; a listing made between them saw the first only.
OverlappingMergesBothKept ==
  /\ Len(inflight) = 2
  /\ Answered(inflight) = {1, 2}
  /\ inflight[1].seen = <<>> /\ inflight[2].seen = <<>>
  /\ inflight[1].at # inflight[2].at
  /\ Len(resourceRegistry) = 1
  /\ Len(resourceRegistry[1].accepts) = 2
  /\ Listed
  /\ Len(last.resp.items) = 1
  /\ Len(last.resp.items[1].accepts) = 1

\* C31: a merge into an existing entry keeps every accepts element the entry
\* had, unchanged and at its position, whatever the incoming element says
\* for the same network and asset; what it appends at the end is the
\* incoming element, and only when its pair of network and asset was not
\* listed. The entries of other resources stay as they were.
MergeKeepsAccepts ==
  CatalogingVerify =>
    \A j \in 1..Len(last.pre.resourceRegistry) :
       \E old \in {last.pre.resourceRegistry[j]} :
          \E new \in {resourceRegistry[j]} :
             IF old.resource # last.req.resource THEN new = old
             ELSE /\ new.resource = old.resource
                  /\ Len(new.accepts) >= Len(old.accepts)
                  /\ \A k \in 1..Len(new.accepts) :
                       IF k <= Len(old.accepts)
                         THEN new.accepts[k] = old.accepts[k]
                         ELSE /\ k = Len(old.accepts) + 1
                              /\ new.accepts[k] = AcceptOf(last.req)
                              /\ ~ListsPair(old.accepts, last.req.network,
                                            last.req.asset)

\* A merge whose incoming element names another payee than the element the
\* entry has for the same network and asset.
MergedOtherPayee ==
  /\ CatalogingVerify
  /\ \E j \in EntriesFor(last.pre.resourceRegistry, last.req.resource) :
        \E k \in 1..Len(last.pre.resourceRegistry[j].accepts) :
           \E a \in {last.pre.resourceRegistry[j].accepts[k]} :
              /\ a.network = last.req.network /\ a.asset = last.req.asset
              /\ a.payTo # last.req.payTo

\* C32: no call removes an entry or lowers its x402Version; a merge sets the
\* entry's x402Version to the larger of the stored and the incoming one (a
\* fresh entry takes the incoming one) and its lastUpdated to the incoming
\* value, the time of the call.
VersionNeverDecreases ==
  last.op # "none" =>
    /\ Len(resourceRegistry) >= Len(last.pre.resourceRegistry)
    /\ \A j \in 1..Len(last.pre.resourceRegistry) :
         /\ resourceRegistry[j].resource = last.pre.resourceRegistry[j].resource
         /\ resourceRegistry[j].x402Version >=
              last.pre.resourceRegistry[j].x402Version
    /\ CatalogingVerify =>
         \A i \in EntriesFor(resourceRegistry, last.req.resource) :
            /\ resourceRegistry[i].lastUpdated = last.pre.now
            /\ resourceRegistry[i].x402Version >= last.x402Version
            /\ \/ resourceRegistry[i].x402Version = last.x402Version
               \/ \E j \in EntriesFor(last.pre.resourceRegistry, last.req.resource) :
                     resourceRegistry[i].x402Version =
                       last.pre.resourceRegistry[j].x402Version

\* A merge of a lower version into an entry of a higher one, at a later time.
MergedLowerVersion ==
  /\ CatalogingVerify
  /\ \E j \in EntriesFor(last.pre.resourceRegistry, last.req.resource) :
        /\ last.pre.resourceRegistry[j].x402Version > last.x402Version
        /\ last.pre.resourceRegistry[j].lastUpdated < last.pre.now

\* C33: the Base verify reads the ledger only once its local checks have
\* passed: it reads the balance only when the network is supported and the
\* timing, amount, recipient and signature checks passed, and the state of
\* the nonce only after the balance read answered and covered the value.
ReadsAfterLocalChecks ==
  (IsVerify /\ OnBase) =>
    /\ last.reads \in {<<>>, <<"balanceOf">>, <<"balanceOf", "authorizationState">>}
    /\ last.reads # <<>> =>
         /\ last.pp.network \in BaseSupportedNetworks
         /\ TimingOk /\ AmountOk /\ RecipientOk
         /\ last.pp.payload.signature = "sig_by_from"
    /\ Len(last.reads) = 2 => (FundsOk /\ last.env # "balanceOf")

\* The signature check fails for an authorization that passes the checks
\* before it and whose payer has the funds: nothing was read.
BadSignatureNoRead ==
  /\ IsVerify /\ OnBase
  /\ last.pp.network \in BaseSupportedNetworks
  /\ TimingOk /\ AmountOk /\ RecipientOk /\ FundsOk
  /\ last.resp.invalidReason = "invalid_signature"
  /\ last.reads = <<>>

\* C34: a Base settle that returns success: true submitted one
\* transferWithAuthorization carrying the verified authorization: from is the
\* reported payer, to is requirements.payTo up to case, value is
\* requirements.maxAmountRequired, nonce and signature are the payload's. The
\* facilitator's account only sends the transaction: the transfer moves the
\* funds from the payer to the payee and names the facilitator at neither end.
SettledTransferIsVerifiedOne ==
  (IsSettle /\ OnBase /\ last.resp.success) =>
    /\ Len(last.writes) = 1
    /\ \E w \in {last.writes[1]} :
          /\ w.functionName = "transferWithAuthorization"
          /\ w.account = privateKey
          /\ w.from # w.account /\ w.to # w.account
          /\ w.from = last.resp.payer
          /\ toLowerCase(w.to) = toLowerCase(last.req.payTo)
          /\ w.value = BigInt(last.req.maxAmountRequired)
          /\ w.nonce = last.pp.payload.authorization.nonce
          /\ w.signature = last.pp.payload.signature

\* A settlement to a payee the authorization spells in another case than the
\* requirements.
SettledToPayeeInOtherCase ==
  /\ IsSettle /\ OnBase /\ last.resp.success
  /\ last.pp.payload.authorization.to # last.req.payTo
  /\ last.writes # <<>>

\* C35: a request whose payload names a network that is none of the eight
\* supported identifiers is never answered isValid: true or success: true,
\* submits nothing and leaves the ledgers and the registry as they were,
\* whether the orchestrator routes it to the Base backend, to the Solana
\* backend or to neither.
UnsupportedNetworkRefused ==
  (Resolved /\ last.pp.network \notin (EvmSupported \cup SolanaSupported)) =>
    /\ IsVerify => ~last.resp.isValid
    /\ IsSettle => ~last.resp.success
    /\ last.writes = <<>>
    /\ LedgerUntouched
    /\ resourceRegistry = last.pre.resourceRegistry

\* A settle on solana-testnet reached the Solana backend with a funded payer
\* and a key configured, and was refused.
TestnetSettleRefused ==
  /\ IsSettle /\ last.family = "solana"
  /\ last.pp.network = "solana-testnet"
  /\ last.pre.tokenAccount[SolanaPayer] >= 1
  /\ keypair # NullKeypair
  /\ ~last.resp.success

\* The network an identifier denotes: the chain getChainId gives it, the
\* cluster whose mint USDC_MINTS gives it, or none.
Denoted(network) ==
  IF getChainId(network) = 8453 THEN "base mainnet"
  ELSE IF getChainId(network) = 84532 THEN "base sepolia"
  ELSE IF USDC_MINTS(network) = USDC_MINTS("solana") THEN "solana mainnet"
  ELSE IF USDC_MINTS(network) = USDC_MINTS("solana-devnet") THEN "solana devnet"
  ELSE "none"

\* C36: verify answers isValid: true and settle success: true only when the
\* network the payload names denotes the network the requirements name.
AcceptedOnRequiredNetworkOnly ==
  (/\ Resolved
   /\ \/ IsVerify /\ last.resp.isValid
      \/ IsSettle /\ last.resp.success)
  => Denoted(last.pp.network) = Denoted(last.req.network)

====
